---- MODULE Spec2Model ----
(***************************************************************************)
(* Observational-memory extension (src/index.ts, first variant, lines      *)
(* 1-1741): the memory document `state`, the pending-segment buffer, the   *)
(* observer and reflector runs and the host event / command handlers.      *)
(*                                                                         *)
(* Scheduling is cooperative: a handler runs without interruption until it *)
(* awaits an external call (gemini CLI, hosted API, ctx.waitForIdle).      *)
(* Each action below is one such uninterrupted stretch of one handler.     *)
(* A handler invocation is a task; its locals live in tasks[t].            *)
(*                                                                         *)
(* Text is modelled by its lines.  A stored observation line is a number   *)
(* l >= 1 (line l is l three-letter words: 4l-1 characters).  A raw        *)
(* line of model output is [pad, body]: body 0 is a whitespace-only line,  *)
(* pad says the line carries surrounding whitespace.                       *)
(* The environment is the default one: thread scope, sqlite store off.     *)
(* The diagnostics lastObservedAt / lastCompressionRatio, the createdAt /   *)
(* at stamps and the preview string of a reflection snapshot are values no *)
(* code path reads back; they are left out.                                *)
(***************************************************************************)
EXTENDS Integers, Sequences, FiniteSets, TLC

\* ---------------------------------------------------------------- bounds
\* host events and commands delivered after session_start (call completions
\* are not counted)
MaxEvents == 3
\* handler invocations that can be suspended at the same time
MaxTasks == 2

\* lines of a stored document, cap and raw lines of a new text given to
\* mergeObservationItems when it is checked on its own
MaxDocLines == 3
MaxCap == 3
MaxIncomingLines == 2
\* messages in the list handed to the context handler
MaxMessages == 3
\* lines of the document given to buildCoreAndRelevantObservations
MaxRelevanceLines == 4
\* the largest magnitude of a number in om-config.json
MaxRawNumber == 5
\* the farthest a date lies from the current date, in days
MaxDays == 800
\* lines of the text handed to addRelativeTimeToObservations
MaxRenderLines == 3

Tasks == 1..MaxTasks
Sessions == {"s1"}
Undefined == "undefined"
\* a session branch without a state entry
NoEntry == <<>>

\* -------------------------------------------------------------- helpers
Max(a, b) == IF a >= b THEN a ELSE b
Range(s) == {s[i] : i \in 1..Len(s)}

RECURSIVE SumSeq(_)
SumSeq(s) == IF s = <<>> THEN 0 ELSE Head(s) + SumSeq(Tail(s))

\* the sequences over S of at most n elements
SeqsUpTo(S, n) == UNION {[1..k -> S] : k \in 0..n}

\* Array.prototype.slice(-n)
LastN(s, n) == IF Len(s) <= n THEN s ELSE SubSeq(s, Len(s) - n + 1, Len(s))
\* Array.prototype.slice(0, n)
FirstN(s, n) == IF Len(s) <= n THEN s ELSE SubSeq(s, 1, n)

\* ------------------------------------------------------------ raw text
Blank == [pad |-> TRUE, body |-> 0]
Raw(l) == [pad |-> FALSE, body |-> l]
Padded(l) == [pad |-> TRUE, body |-> l]

\* String.prototype.trim on one line, then filter(Boolean)
TrimLine(r) == r.body
IsNonEmptyLine(r) == TrimLine(r) # 0

RECURSIVE SplitTrimFilter(_)
SplitTrimFilter(raw) ==
    IF raw = <<>> THEN <<>>
    ELSE IF IsNonEmptyLine(Head(raw))
         THEN <<TrimLine(Head(raw))>> \o SplitTrimFilter(Tail(raw))
         ELSE SplitTrimFilter(Tail(raw))

\* a stored document seen again as raw text (its lines carry no padding)
AsRaw(lines) == [i \in 1..Len(lines) |-> Raw(lines[i])]

\* String.prototype.trim on a whole text: leading / trailing blank lines go
RECURSIVE DropLeadingBlank(_)
DropLeadingBlank(raw) ==
    IF raw = <<>> THEN <<>>
    ELSE IF IsNonEmptyLine(Head(raw)) THEN raw ELSE DropLeadingBlank(Tail(raw))

RECURSIVE DropTrailingBlank(_)
DropTrailingBlank(raw) ==
    IF raw = <<>> THEN <<>>
    ELSE IF IsNonEmptyLine(raw[Len(raw)]) THEN raw
         ELSE DropTrailingBlank(SubSeq(raw, 1, Len(raw) - 1))

TrimText(raw) == DropTrailingBlank(DropLeadingBlank(raw))

\* ------------------------------------------------------- token estimate
LineChars(l) == 4 * l - 1
LinePieces(l) == l
TextChars(lines) ==
    IF lines = <<>> THEN 0
    ELSE SumSeq([i \in 1..Len(lines) |-> LineChars(lines[i])]) + (Len(lines) - 1)
TextPieces(lines) == SumSeq([i \in 1..Len(lines) |-> LinePieces(lines[i])])

\* max(1, ceil(max(chars / 4.0, pieces * 0.72))), 0 for the empty text
roughTextTokenizer(lines) ==
    IF lines = <<>> THEN 0
    ELSE Max(1, Max((TextChars(lines) + 3) \div 4,
                    (72 * TextPieces(lines) + 99) \div 100))

\* -------------------------------------------------------- configuration
DEFAULT_OM_CONFIG ==
    [recentTurnBudgetTokens |-> 12000,
     maxObservationItems |-> 1200,
     maxObserverTranscriptChars |-> 200000,
     maxReflectorObservationsChars |-> 240000,
     coreMemoryMaxTokens |-> 500,
     relevantObservationMaxItems |-> 20,
     relevantObservationMaxTokens |-> 1400,
     forceObserveAutoCompact |-> TRUE,
     enableReflection |-> TRUE,
     reflectEveryNObservations |-> 3,
     reflectWhenObservationTokensOver |-> 3000,
     reflectBeforeCompaction |-> TRUE,
     autoObservePendingTokenThreshold |-> 8000]

\* the om-config.json contents the model draws from (already normalised)
ConfigSmall ==
    [recentTurnBudgetTokens |-> 2,
     maxObservationItems |-> 2,
     maxObserverTranscriptChars |-> 200000,
     maxReflectorObservationsChars |-> 240000,
     coreMemoryMaxTokens |-> 2,
     relevantObservationMaxItems |-> 1,
     relevantObservationMaxTokens |-> 2,
     forceObserveAutoCompact |-> TRUE,
     enableReflection |-> TRUE,
     reflectEveryNObservations |-> 1,
     reflectWhenObservationTokensOver |-> 3000,
     reflectBeforeCompaction |-> TRUE,
     autoObservePendingTokenThreshold |-> 2]

\* ConfigSmall with reflection switched off
ConfigNoReflection == [ConfigSmall EXCEPT !.enableReflection = FALSE]
\* periodic reflection by the size of the document, not by the run count
ConfigByTokens ==
    [ConfigSmall EXCEPT !.reflectEveryNObservations = 3,
                        !.reflectWhenObservationTokensOver = 2]
\* om-config.json when the session starts: absent, or ConfigSmall
ConfigFiles == {"absent", "small"}

\* loadOmConfig
loadOmConfig(file) ==
    CASE file = "absent" -> DEFAULT_OM_CONFIG
      [] file = "small" -> ConfigSmall
      [] file = "noreflect" -> ConfigNoReflection
      [] file = "bytokens" -> ConfigByTokens

\* ---------------------------------------------------------- model text
\* what a channel hands back: the three sections of the reply, as written
EmptyText == [observations |-> <<>>, currentTask |-> "", suggestedResponse |-> ""]
\* the non-empty replies; the first has no usable observations section, and
\* parseOmSections treats an empty completion as it treats that one
ModelTexts ==
    {[observations |-> <<Blank>>, currentTask |-> "taskA", suggestedResponse |-> ""],
     [observations |-> <<Padded(1)>>, currentTask |-> "", suggestedResponse |-> ""],
     [observations |-> <<Blank, Raw(2), Blank, Padded(1), Raw(2)>>,
      currentTask |-> "taskB", suggestedResponse |-> "respA"]}

IsEmptyText(text) == text = EmptyText

\* parseOmSections: each section trimmed, empty optional sections undefined
parseOmSections(text) ==
    [observations |-> TrimText(text.observations),
     currentTask |-> IF text.currentTask = "" THEN Undefined ELSE text.currentTask,
     suggestedResponse |->
        IF text.suggestedResponse = "" THEN Undefined ELSE text.suggestedResponse]

\* !parsed.observations.trim()
ObservationsEmpty(parsed) == TrimText(parsed.observations) = <<>>


\* ------------------------------------------------------------ the state
VARIABLES
    state,                      \* let state: OmState
    omConfig,                   \* let omConfig: OmConfig
    configFile,                 \* which om-config.json is on disk
    tasks,                      \* running handler invocations and their locals
    sessionLog,                 \* per session: <<data of its last state entry>>
    hostSession,                \* the session the host has open
    activeScopeKey,             \* let activeScopeKey
    warnedMissingModel,         \* let warnedMissingModel
    forceCompactionFromObserve, \* let forceCompactionFromObserve
    geminiCliChecked,           \* let geminiCliChecked: boolean | undefined
    nextSegId,                  \* segments created so far + 1 (randomId is fresh)
    events,                     \* host events and commands delivered so far
    lastStep                    \* what the latest step did: calls, commits, returns

vars == <<state, omConfig, configFile, tasks, sessionLog, hostSession,
          activeScopeKey, warnedMissingModel, forceCompactionFromObserve,
          geminiCliChecked, nextSegId, events, lastStep>>

createInitialState ==
    [observations |-> <<>>,
     observationTokens |-> 0,
     currentTask |-> Undefined,
     suggestedResponse |-> Undefined,
     observationRuns |-> 0,
     reflectionRuns |-> 0,
     reflections |-> <<>>,
     pendingSegments |-> <<>>,
     pendingTokens |-> 0,
     isBufferingObservation |-> FALSE,
     isBufferingReflection |-> FALSE]

\* ------------------------------------------------- operations on OmState
\* variant that keeps the oldest lines on overflow
mergeObservationItems_KeepsOldest(existingText, incomingText) ==
    FirstN(SplitTrimFilter(existingText) \o SplitTrimFilter(incomingText),
           omConfig.maxObservationItems)

mergeObservationItems(existingText, incomingText) ==
    LastN(SplitTrimFilter(existingText) \o SplitTrimFilter(incomingText),
          omConfig.maxObservationItems)

SegmentTokens(segments) == SumSeq([i \in 1..Len(segments) |-> segments[i].tokens])

\* variant that leaves the counter as it was
recomputePendingCounters_Stale(st) == st

recomputePendingCounters(st) ==
    [st EXCEPT !.pendingTokens = SegmentTokens(st.pendingSegments)]

\* variant that sends only the segment appended last
buildTranscriptFromSegments_NewestOnly(segments) ==
    IF segments = <<>> THEN <<>> ELSE <<segments[Len(segments)].id>>

buildTranscriptFromSegments(segments) == [i \in 1..Len(segments) |-> segments[i].id]

pushPendingSegment(st, id, tokens) ==
    recomputePendingCounters(
        [st EXCEPT !.pendingSegments = Append(@, [id |-> id, tokens |-> Max(1, tokens)])])

ReflectionHistoryMax == 15

\* variant that takes the run flags from the record
coerceState_KeepsFlags(raw) ==
    [raw EXCEPT !.reflections = FirstN(@, ReflectionHistoryMax),
                !.pendingTokens = 0]

coerceState(raw) ==
    [raw EXCEPT !.reflections = FirstN(@, ReflectionHistoryMax),
                !.pendingTokens = 0,
                !.isBufferingObservation = FALSE,
                !.isBufferingReflection = FALSE]

\* variant that looks at the token threshold only
shouldRunPeriodicReflection_TokensOnly(st) ==
    /\ omConfig.enableReflection
    /\ st.observations # <<>>
    /\ st.observationTokens >= Max(1, omConfig.reflectWhenObservationTokensOver)

shouldRunPeriodicReflection(st) ==
    IF ~omConfig.enableReflection THEN FALSE
    ELSE IF st.observations = <<>> THEN FALSE
    ELSE LET everyN == Max(1, omConfig.reflectEveryNObservations)
             tokenThreshold == Max(1, omConfig.reflectWhenObservationTokensOver)
             byObservationRuns == st.observationRuns > 0 /\ st.observationRuns % everyN = 0
             byTokenThreshold == st.observationTokens >= tokenThreshold
         IN byObservationRuns \/ byTokenThreshold

\* variant of observeNow's merge that leaves observationRuns as it was
ObserverCommit_NoCount(st, parsed) ==
    LET merged == mergeObservationItems(AsRaw(st.observations), parsed.observations)
    IN [st EXCEPT
          !.observations = merged,
          !.observationTokens = roughTextTokenizer(merged),
          !.currentTask = IF parsed.currentTask # Undefined THEN parsed.currentTask ELSE @,
          !.suggestedResponse =
              IF parsed.suggestedResponse # Undefined THEN parsed.suggestedResponse ELSE @,
          !.pendingSegments = <<>>,
          !.pendingTokens = 0]

\* observeNow, lines 1379-1386: the merge after a parsed reply
ObserverCommit(st, parsed) ==
    LET merged == mergeObservationItems(AsRaw(st.observations), parsed.observations)
    IN [st EXCEPT
          !.observations = merged,
          !.observationTokens = roughTextTokenizer(merged),
          !.currentTask = IF parsed.currentTask # Undefined THEN parsed.currentTask ELSE @,
          !.suggestedResponse =
              IF parsed.suggestedResponse # Undefined THEN parsed.suggestedResponse ELSE @,
          !.observationRuns = @ + 1,
          !.pendingSegments = <<>>,
          !.pendingTokens = 0]

\* reflectNow merging the reply into the document instead of replacing it
ReflectorCommit_Appends(st, parsed, beforeTokens) ==
    LET merged == mergeObservationItems(AsRaw(st.observations), parsed.observations)
        afterTokens == roughTextTokenizer(merged)
        entry == [beforeTokens |-> beforeTokens, afterTokens |-> afterTokens]
    IN [st EXCEPT
          !.observations = merged,
          !.observationTokens = afterTokens,
          !.currentTask = IF parsed.currentTask # Undefined THEN parsed.currentTask ELSE @,
          !.suggestedResponse =
              IF parsed.suggestedResponse # Undefined THEN parsed.suggestedResponse ELSE @,
          !.reflectionRuns = @ + 1,
          !.reflections = FirstN(<<entry>> \o @, ReflectionHistoryMax)]

\* variant of reflectNow's history update that drops the newest of the old
\* entries instead of the oldest
ReflectorCommit_DropsNewest(st, parsed, beforeTokens) ==
    LET replaced == mergeObservationItems(<<>>, parsed.observations)
        afterTokens == roughTextTokenizer(replaced)
        entry == [beforeTokens |-> beforeTokens, afterTokens |-> afterTokens]
    IN [st EXCEPT
          !.observations = replaced,
          !.observationTokens = afterTokens,
          !.currentTask = IF parsed.currentTask # Undefined THEN parsed.currentTask ELSE @,
          !.suggestedResponse =
              IF parsed.suggestedResponse # Undefined THEN parsed.suggestedResponse ELSE @,
          !.reflectionRuns = @ + 1,
          !.reflections = IF Len(@) < ReflectionHistoryMax THEN <<entry>> \o @
                          ELSE <<entry>> \o Tail(@)]

\* variant of reflectNow's commit that takes the optional fields as they are
\* in the reply, present or not
ReflectorCommit_ClearsOmitted(st, parsed, beforeTokens) ==
    LET replaced == mergeObservationItems(<<>>, parsed.observations)
        afterTokens == roughTextTokenizer(replaced)
        entry == [beforeTokens |-> beforeTokens, afterTokens |-> afterTokens]
    IN [st EXCEPT
          !.observations = replaced,
          !.observationTokens = afterTokens,
          !.currentTask = parsed.currentTask,
          !.suggestedResponse = parsed.suggestedResponse,
          !.reflectionRuns = @ + 1,
          !.reflections = FirstN(<<entry>> \o @, ReflectionHistoryMax)]

\* reflectNow, lines 1338-1349: the replace after a parsed reply
ReflectorCommit(st, parsed, beforeTokens) ==
    LET replaced == mergeObservationItems(<<>>, parsed.observations)
        afterTokens == roughTextTokenizer(replaced)
        entry == [beforeTokens |-> beforeTokens, afterTokens |-> afterTokens]
    IN [st EXCEPT
          !.observations = replaced,
          !.observationTokens = afterTokens,
          !.currentTask = IF parsed.currentTask # Undefined THEN parsed.currentTask ELSE @,
          !.suggestedResponse =
              IF parsed.suggestedResponse # Undefined THEN parsed.suggestedResponse ELSE @,
          !.reflectionRuns = @ + 1,
          !.reflections = FirstN(<<entry>> \o @, ReflectionHistoryMax)]

\* --------------------------------------------------------------- tasks
\* the locals of a handler invocation; scopeKey is no local of the code: it
\* records the value of activeScopeKey when the invocation's run began
IdleTask ==
    [kind |-> "none", pc |-> "idle",
     triggerAutoReflect |-> FALSE,
     transcript |-> <<>>,
     usedGeminiCli |-> FALSE, text |-> EmptyText, ret |-> FALSE,
     nested |-> FALSE, reason |-> "none", silentIfSkipped |-> FALSE,
     beforeObservations |-> <<>>, beforeTokens |-> 0,
     skipCompact |-> FALSE, shouldOverwriteAll |-> FALSE,
     scopeKey |-> ""]

\* the program points at which a handler is suspended (or has ended)
SuspendedPcs == {"idle", "obs_cli", "obs_api", "rfl_cli", "rfl_api", "wait_idle"}

\* one entry of lastStep: what happened, and for a commit the reply it used
Ev(op, text) == [op |-> op, text |-> text]

\* the closure's mutable bindings, threaded through one uninterrupted stretch
World(t) ==
    [id |-> t, task |-> tasks[t], state |-> state, sessionLog |-> sessionLog,
     warnedMissingModel |-> warnedMissingModel,
     forceCompactionFromObserve |-> forceCompactionFromObserve,
     geminiCliChecked |-> geminiCliChecked,
     trace |-> <<>>]

Emit(w, op) == [w EXCEPT !.trace = Append(@, Ev(op, EmptyText))]
EmitText(w, op, text) == [w EXCEPT !.trace = Append(@, Ev(op, text))]

persistState(w) ==
    LET st == [recomputePendingCounters(w.state) EXCEPT
                  !.observationTokens = roughTextTokenizer(w.state.observations)]
    IN [w EXCEPT !.state = st, !.sessionLog[hostSession] = <<st>>]


\* ------------------------------------------------------ the environment
\* what the surroundings answer during one stretch: whether `which gemini`
\* succeeds (read only while geminiCliChecked is undefined) and whether
\* resolveCompressionModel finds a model with an API key
Envs == [cli : BOOLEAN, api : BOOLEAN]
\* a machine without the gemini command-line tool
ApiOnlyEnvs == {env \in Envs : ~env.cli}

\* variant that never finds the command-line tool
isGeminiCliAvailable_Never(w, env) == FALSE

isGeminiCliAvailable(w, env) ==
    IF w.geminiCliChecked # Undefined THEN w.geminiCliChecked = "true"
    ELSE env.cli
CacheGeminiCli(w, env) ==
    IF w.geminiCliChecked # Undefined THEN w
    ELSE [w EXCEPT !.geminiCliChecked = IF env.cli THEN "true" ELSE "false"]

Goto(w, pc) == [w EXCEPT !.task.pc = pc]
Return(w, pc, ret) == [w EXCEPT !.task.pc = pc, !.task.ret = ret]

\* observeNow without its isBufferingObservation check
ObserveRefused_NoFlagCheck(st) == st.pendingSegments = <<>>

\* observeNow, lines 1368-1369: the two early returns (outside the try)
ObserveRefused(st) == st.pendingSegments = <<>> \/ st.isBufferingObservation

\* reflectNow, lines 1314-1325: the three early returns (outside the try)
ReflectRefused(st) ==
    \/ ~omConfig.enableReflection
    \/ st.observations = <<>>
    \/ st.isBufferingReflection

\* observeNow up to its first await that suspends (lines 1364-1376, 1200-1212)
EnterObserveNow(w, env) ==
    LET w0 == Emit(w, "observeNow.enter")
    IN IF ObserveRefused(w0.state)
       THEN Return(Emit(w0, "observeNow.refused"), "obs_ret", FALSE)
       ELSE LET w1 == [w0 EXCEPT
                         !.state.isBufferingObservation = TRUE,
                         !.task.scopeKey = activeScopeKey,
                         !.task.transcript = buildTranscriptFromSegments(w0.state.pendingSegments),
                         !.task.usedGeminiCli = FALSE,
                         !.task.text = EmptyText]
                w2 == CacheGeminiCli(w1, env)
            IN IF isGeminiCliAvailable(w1, env)
               THEN Goto(Emit(w2, "observer.cli"), "obs_cli")
               ELSE Goto(w2, "runObserverApi")

\* runObserverCall, lines 1214-1239: the fallback when text is still empty
RunObserverApi(w, env) ==
    IF env.api
    THEN Goto(Emit(w, "observer.api"), "obs_api")
    ELSE IF ~w.task.usedGeminiCli
         THEN LET w1 == IF ~w.warnedMissingModel
                        THEN Emit([w EXCEPT !.warnedMissingModel = TRUE],
                                  "warn.missing")
                        ELSE w
              IN Return([w1 EXCEPT !.task.transcript = <<>>], "obs_finally", FALSE)
         ELSE Goto(w, "obs_parse")

\* observeNow clearing the buffer before it looks at the outcome
ObserveOutcome_ClearsFirst(st, parsed) ==
    IF ObservationsEmpty(parsed)
    THEN [st EXCEPT !.pendingSegments = <<>>, !.pendingTokens = 0]
    ELSE ObserverCommit(st, parsed)

\* what observeNow does with the outcome of runObserverCall (lines 1377-1386)
ObserveOutcome(st, parsed) ==
    IF ObservationsEmpty(parsed) THEN st ELSE ObserverCommit(st, parsed)

\* runObserverCall lines 1240-1247, then observeNow lines 1377-1393
ObserverParse(w) ==
    LET w1 == [w EXCEPT !.warnedMissingModel = FALSE]
        parsed == parseOmSections(w.task.text)
    IN IF ObservationsEmpty(parsed)
       THEN Return([w1 EXCEPT !.state = ObserveOutcome(w1.state, parsed),
                              !.task.transcript = <<>>], "obs_finally", FALSE)
       ELSE LET w2 == EmitText([w1 EXCEPT !.state = ObserveOutcome(w1.state, parsed),
                                          !.task.transcript = <<>>],
                               "observer.commit", w.task.text)
            IN IF w2.task.triggerAutoReflect /\ shouldRunPeriodicReflection(w2.state)
               THEN Goto([w2 EXCEPT !.task.nested = TRUE,
                                    !.task.reason = "auto-periodic",
                                    !.task.silentIfSkipped = TRUE], "reflectNow")
               ELSE Return(w2, "obs_finally", TRUE)

\* observeNow, lines 1394-1397
ObserveFinally(st) == [st EXCEPT !.isBufferingObservation = FALSE]

\* reflectNow without its finally block
ReflectFinally_FlagLeftSet(st) == st

\* reflectNow, lines 1358-1361
ReflectFinally(st) == [st EXCEPT !.isBufferingReflection = FALSE]

\* reflectNow up to its first await that suspends (lines 1306-1332, 1256-1267)
EnterReflectNow(w, env) ==
    LET w0 == EmitText(w, "reflectNow.enter", w.task.reason)
    IN IF ReflectRefused(w0.state)
       THEN Return(Emit(w0, "reflectNow.refused"), "rfl_ret", FALSE)
       ELSE LET w1 == [w0 EXCEPT
                         !.state.isBufferingReflection = TRUE,
                         !.task.scopeKey = activeScopeKey,
                         !.task.beforeObservations = w0.state.observations,
                         !.task.beforeTokens = w0.state.observationTokens,
                         !.task.usedGeminiCli = FALSE,
                         !.task.text = EmptyText]
                w2 == CacheGeminiCli(w1, env)
            IN IF isGeminiCliAvailable(w1, env)
               THEN Goto(Emit(w2, "reflector.cli"), "rfl_cli")
               ELSE Goto(w2, "runReflectorApi")

\* runReflectorCall, lines 1269-1288
RunReflectorApi(w, env) ==
    IF env.api
    THEN Goto(Emit(w, "reflector.api"), "rfl_api")
    ELSE Goto(w, "rfl_parse")

\* reflectNow counting the run before it looks at the outcome
ReflectOutcome_CountsFirst(st, parsed, beforeTokens) ==
    IF ObservationsEmpty(parsed) THEN [st EXCEPT !.reflectionRuns = @ + 1]
    ELSE ReflectorCommit(st, parsed, beforeTokens)

\* reflectNow replacing the document whatever the reply holds
ReflectOutcome_NoParseCheck(st, parsed, beforeTokens) ==
    ReflectorCommit(st, parsed, beforeTokens)

\* what reflectNow does with the outcome of runReflectorCall (lines 1333-1349)
ReflectOutcome(st, parsed, beforeTokens) ==
    IF ObservationsEmpty(parsed) THEN st
    ELSE ReflectorCommit(st, parsed, beforeTokens)

\* runReflectorCall lines 1290-1292, then reflectNow lines 1333-1357
ReflectorParse(w) ==
    LET parsed == parseOmSections(w.task.text)
        st == ReflectOutcome(w.state, parsed, w.task.beforeTokens)
    IN IF ObservationsEmpty(parsed)
       THEN Return([w EXCEPT !.state = st], "rfl_finally", FALSE)
       ELSE Return(persistState(EmitText([w EXCEPT !.state = st],
                                     "reflector.commit", w.task.text)),
                   "rfl_finally", TRUE)

\* the handler's code after `await observeNow(...)`
AfterObserveNow(w) ==
    LET observed == w.task.ret
    IN CASE w.task.kind = "turn_end" ->                       \* lines 1437-1443
              Goto(persistState(w), "done")
         [] w.task.kind = "session_before_compact" ->         \* lines 1465-1476
              IF observed
              THEN LET w1 == persistState(w)
                   IN IF omConfig.reflectBeforeCompaction /\ omConfig.enableReflection
                      THEN Goto([w1 EXCEPT !.task.nested = FALSE,
                                           !.task.reason = "before-compaction",
                                           !.task.silentIfSkipped = TRUE], "reflectNow")
                      ELSE Goto(w1, "compact_return")
              ELSE Goto(w, "compact_return")
         [] w.task.kind = "om-observe" ->                     \* lines 1633-1644
              IF ~observed THEN Goto(w, "done")
              ELSE LET w1 == persistState(w)
                   IN IF w1.task.skipCompact THEN Goto(w1, "done")
                      ELSE Goto(w1, "wait_idle")
         [] w.task.kind = "om-reflect" ->                     \* lines 1671-1682
              Goto([(IF observed THEN persistState(w) ELSE w) EXCEPT
                      !.task.nested = FALSE,
                      !.task.reason = "manual-command",
                      !.task.silentIfSkipped = FALSE], "reflectNow")

\* the code after `await reflectNow(...)`
AfterReflectNow(w) ==
    IF w.task.nested
    THEN Return([w EXCEPT !.task.nested = FALSE], "obs_finally", TRUE) \* lines 1390-1393
    ELSE IF w.task.kind = "session_before_compact"
         THEN Goto(w, "compact_return")
         ELSE Goto(w, "done")

\* variant that reports the latest branch entry whatever the mark was
CompactReturn_AlwaysLatest(w) ==
    IF w.state.observations = <<>>
    THEN Goto(Emit(w, "compact.none"), "done")
    ELSE Goto(Emit(w, "compact.latest"), "done")

\* session_before_compact, lines 1479-1493: the value handed back to the host
CompactReturn(w) ==
    IF w.state.observations = <<>>
    THEN Goto(Emit(w, "compact.none"), "done")
    ELSE Goto(Emit(w, IF w.task.shouldOverwriteAll THEN "compact.latest" ELSE "compact.host"),
              "done")

\* one program point of the running handler
Step(w, env) ==
    CASE w.task.pc = "observeNow" -> EnterObserveNow(w, env)
      [] w.task.pc = "runObserverApi" -> RunObserverApi(w, env)
      [] w.task.pc = "obs_parse" -> ObserverParse(w)
      [] w.task.pc = "obs_finally" ->
           Goto(Emit([w EXCEPT !.state = ObserveFinally(w.state)],
                     IF w.task.ret THEN "observeNow.true" ELSE "observeNow.false"), "obs_ret")
      [] w.task.pc = "obs_throw" ->
           Goto(Emit([w EXCEPT !.state = ObserveFinally(w.state)],
                     "observeNow.throw"), "handler_throw")
      [] w.task.pc = "obs_ret" -> AfterObserveNow(w)
      [] w.task.pc = "reflectNow" -> EnterReflectNow(w, env)
      [] w.task.pc = "runReflectorApi" -> RunReflectorApi(w, env)
      [] w.task.pc = "rfl_parse" -> ReflectorParse(w)
      [] w.task.pc = "rfl_finally" ->
           Goto(Emit([w EXCEPT !.state = ReflectFinally(w.state)],
                     IF w.task.ret THEN "reflectNow.true" ELSE "reflectNow.false"), "rfl_ret")
      [] w.task.pc = "rfl_throw" ->
           Goto(Emit([w EXCEPT !.state = ReflectFinally(w.state)],
                     "reflectNow.throw"),
                IF w.task.nested THEN "obs_throw" ELSE "handler_throw")
      [] w.task.pc = "rfl_ret" -> AfterReflectNow(w)
      [] w.task.pc = "compact_return" -> CompactReturn(w)
      [] w.task.pc = "handler_throw" ->
           [Emit(w, "handler.throw") EXCEPT !.task = IdleTask]
      [] w.task.pc = "done" -> [w EXCEPT !.task = IdleTask]

\* run the handler until it suspends or ends
RECURSIVE Run(_, _)
Run(w, env) ==
    IF w.task.pc \in SuspendedPcs
    THEN [w EXCEPT !.task.text = EmptyText, !.task.ret = FALSE, !.task.usedGeminiCli = FALSE]
    ELSE Run(Step(w, env), env)

\* write the closure's bindings back
Install(w) ==
    /\ state' = w.state
    /\ sessionLog' = w.sessionLog
    /\ warnedMissingModel' = w.warnedMissingModel
    /\ forceCompactionFromObserve' = w.forceCompactionFromObserve
    /\ geminiCliChecked' = w.geminiCliChecked
    /\ tasks' = [tasks EXCEPT ![w.id] = w.task]
    /\ lastStep' = w.trace


\* --------------------------------------------------------------- inputs
\* estimateMessageTokens summed over one turn's messages
TurnTokenEstimates == {0, 2}
\* roughTextTokenizer of the serialised messages about to be compacted
CompactionTokenEstimates == {1}

\* the slot a new handler invocation takes
FreeSlot(t) ==
    /\ activeScopeKey # ""
    /\ events < MaxEvents
    /\ tasks[t].pc = "idle"
    /\ \A u \in Tasks : u < t => tasks[u].pc # "idle"

\* -------------------------------------------------------------- actions
Init ==
    /\ state = createInitialState
    /\ omConfig = DEFAULT_OM_CONFIG
    /\ configFile \in ConfigFiles
    /\ tasks = [t \in Tasks |-> IdleTask]
    /\ sessionLog = [s \in Sessions |-> NoEntry]
    /\ hostSession = "s1"
    /\ activeScopeKey = ""
    /\ warnedMissingModel = FALSE
    /\ forceCompactionFromObserve = FALSE
    /\ geminiCliChecked = Undefined
    /\ nextSegId = 1
    /\ events = 0
    /\ lastStep = <<>>

\* loadState, lines 1172-1192
loadState(s) ==
    /\ hostSession' = s
    /\ omConfig' = loadOmConfig(configFile)
    /\ activeScopeKey' = s
    /\ state' = recomputePendingCounters(
                    IF sessionLog[s] = NoEntry THEN createInitialState
                    ELSE coerceState(sessionLog[s][1]))
    /\ lastStep' = <<Ev("loadState", EmptyText)>>
    /\ UNCHANGED <<configFile, tasks, sessionLog, warnedMissingModel,
                   forceCompactionFromObserve, geminiCliChecked, nextSegId>>

\* session_switch / session_fork / session_tree
LoadState(s) ==
    /\ activeScopeKey # ""
    /\ events < MaxEvents
    /\ events' = events + 1
    /\ loadState(s)

\* session_start: the host's first event
SessionStart ==
    /\ activeScopeKey = ""
    /\ UNCHANGED events
    /\ loadState(hostSession)

\* pi.on("turn_end")
TurnEnd(t, estimate, env) ==
    /\ FreeSlot(t)
    /\ events' = events + 1
    /\ LET w0 == World(t)
           st == pushPendingSegment(w0.state, nextSegId, estimate)
           threshold == omConfig.autoObservePendingTokenThreshold
           w1 == Emit([w0 EXCEPT !.state = st,
                                 !.task = [IdleTask EXCEPT !.kind = "turn_end",
                                                           !.triggerAutoReflect = TRUE]],
                      "turn_end")
           w2 == IF threshold > 0 /\ st.pendingTokens >= threshold
                    /\ Len(st.pendingSegments) > 0
                 THEN Goto(w1, "observeNow")
                 ELSE Goto(persistState(w1), "done")
       IN Install(Run(w2, env))
    /\ nextSegId' = nextSegId + 1
    /\ UNCHANGED <<omConfig, configFile, hostSession, activeScopeKey>>

\* pi.on("session_before_compact")
SessionBeforeCompact(t, hasMessages, estimate, env) ==
    /\ FreeSlot(t)
    /\ events' = events + 1
    /\ LET w0 == World(t)
           w1 == Emit([w0 EXCEPT !.forceCompactionFromObserve = FALSE,
                                 !.task = [IdleTask EXCEPT
                                             !.kind = "session_before_compact",
                                             !.triggerAutoReflect = FALSE,
                                             !.shouldOverwriteAll = w0.forceCompactionFromObserve]],
                      "session_before_compact")
           w2 == IF hasMessages
                 THEN Goto([w1 EXCEPT !.state = pushPendingSegment(w1.state, nextSegId, estimate)],
                           "observeNow")
                 ELSE Goto(w1, "compact_return")
       IN Install(Run(w2, env))
    /\ nextSegId' = IF hasMessages THEN nextSegId + 1 ELSE nextSegId
    /\ UNCHANGED <<omConfig, configFile, hostSession, activeScopeKey>>

\* /om-observe [--no-compact]
OmObserve(t, noCompact, env) ==
    /\ FreeSlot(t)
    /\ events' = events + 1
    /\ LET w0 == World(t)
           w1 == Emit([w0 EXCEPT !.task = [IdleTask EXCEPT
                                             !.kind = "om-observe",
                                             !.triggerAutoReflect = TRUE,
                                             !.skipCompact =
                                                noCompact \/ ~omConfig.forceObserveAutoCompact]],
                      "om-observe")
           w2 == IF w1.state.pendingSegments = <<>>
                 THEN Goto(Emit(w1, "warn.nopending"), "done")
                 ELSE Goto(w1, "observeNow")
       IN Install(Run(w2, env))
    /\ UNCHANGED <<omConfig, configFile, hostSession, activeScopeKey, nextSegId>>

\* /om-observe resumed after ctx.waitForIdle()
WaitForIdleResumes(t) ==
    /\ UNCHANGED events
    /\ tasks[t].pc = "wait_idle"
    /\ LET w0 == World(t)
           w1 == [w0 EXCEPT !.forceCompactionFromObserve = TRUE]
       IN Install(Run(Goto(Emit(w1, "ctx.compact"), "done"),
                      [cli |-> FALSE, api |-> FALSE]))
    /\ UNCHANGED <<omConfig, configFile, hostSession, activeScopeKey, nextSegId>>

\* /om-reflect (--aggressive only changes the wording of the reflector prompt)
OmReflect(t, env) ==
    /\ FreeSlot(t)
    /\ events' = events + 1
    /\ LET w0 == World(t)
           w1 == Emit([w0 EXCEPT !.task = [IdleTask EXCEPT
                                             !.kind = "om-reflect",
                                             !.triggerAutoReflect = FALSE,
                                             !.reason = "manual-command"]],
                      "om-reflect")
           w2 == IF Len(w1.state.pendingSegments) > 0
                 THEN Goto(w1, "observeNow")
                 ELSE Goto(w1, "reflectNow")
       IN Install(Run(w2, env))
    /\ UNCHANGED <<omConfig, configFile, hostSession, activeScopeKey, nextSegId>>

\* /om-reflect as registered by the second copy of the extension (lines
\* 2973-2984): reflectNow at once.  Its reflectNow (lines 2659-2715) has the
\* guards and the commit of lines 1306-1362.
OmReflectSecondVariant(t, env) ==
    /\ FreeSlot(t)
    /\ events' = events + 1
    /\ LET w0 == World(t)
           w1 == Emit([w0 EXCEPT !.task = [IdleTask EXCEPT
                                             !.kind = "om-reflect",
                                             !.triggerAutoReflect = FALSE,
                                             !.reason = "manual-command"]],
                      "om-reflect")
       IN Install(Run(Goto(w1, "reflectNow"), env))
    /\ UNCHANGED <<omConfig, configFile, hostSession, activeScopeKey, nextSegId>>

\* /om-clear
OmClear ==
    /\ activeScopeKey # ""
    /\ events < MaxEvents
    /\ events' = events + 1
    /\ LET w0 == [World(1) EXCEPT !.state = createInitialState]
           w1 == persistState(w0)
       IN /\ state' = w1.state
          /\ sessionLog' = w1.sessionLog
          /\ lastStep' = <<Ev("om-clear", EmptyText)>>
    /\ UNCHANGED <<omConfig, configFile, tasks, hostSession, activeScopeKey,
                   warnedMissingModel, forceCompactionFromObserve, geminiCliChecked,
                   nextSegId>>

\* what the user leaves in the editor of /om-config edit: the JSON of one of
\* the configurations, or nothing (the editor was cancelled)
EditorResults == {"noreflect", "bytokens", "cancelled"}

\* /om-config edit, from the moment ctx.ui.editor resolves
OmConfigEdit(edited) ==
    /\ activeScopeKey # ""
    /\ events < MaxEvents
    /\ events' = events + 1
    /\ IF edited = "cancelled"
       THEN UNCHANGED <<omConfig, configFile>>
       ELSE /\ omConfig' = loadOmConfig(edited)
            /\ configFile' = edited
    /\ lastStep' = <<Ev("om-config", EmptyText)>>
    /\ UNCHANGED <<state, tasks, sessionLog, hostSession, activeScopeKey,
                   warnedMissingModel, forceCompactionFromObserve, geminiCliChecked,
                   nextSegId>>

\* callGeminiCli resolves with the process's output
CliReturns(t, text, env) ==
    /\ UNCHANGED events
    /\ tasks[t].pc \in {"obs_cli", "rfl_cli"}
    /\ LET observer == tasks[t].pc = "obs_cli"
           w0 == World(t)
           w1 == EmitText([w0 EXCEPT !.task.text = text, !.task.usedGeminiCli = TRUE],
                          "cli.returned", text)
           w2 == IF IsEmptyText(text)
                 THEN Goto(w1, IF observer THEN "runObserverApi" ELSE "runReflectorApi")
                 ELSE Goto(w1, IF observer THEN "obs_parse" ELSE "rfl_parse")
       IN Install(Run(w2, env))
    /\ UNCHANGED <<omConfig, configFile, hostSession, activeScopeKey, nextSegId>>

\* callGeminiCli rejects (spawn error, non-zero exit, abort)
CliFails(t, env) ==
    /\ UNCHANGED events
    /\ tasks[t].pc \in {"obs_cli", "rfl_cli"}
    /\ LET observer == tasks[t].pc = "obs_cli"
           w0 == World(t)
           w1 == Goto(w0, IF observer THEN "runObserverApi" ELSE "runReflectorApi")
       IN Install(Run(Emit(w1, "cli.failed"), env))
    /\ UNCHANGED <<omConfig, configFile, hostSession, activeScopeKey, nextSegId>>

\* complete() resolves; extractCompletionText gives its text
ApiReturns(t, text, env) ==
    /\ UNCHANGED events
    /\ tasks[t].pc \in {"obs_api", "rfl_api"}
    /\ LET observer == tasks[t].pc = "obs_api"
           w0 == World(t)
           w1 == Goto([w0 EXCEPT !.task.text = text],
                      IF observer THEN "obs_parse" ELSE "rfl_parse")
       IN Install(Run(w1, env))
    /\ UNCHANGED <<omConfig, configFile, hostSession, activeScopeKey, nextSegId>>

\* complete() rejects: nothing in runObserverCall / runReflectorCall catches it
ApiThrows(t, env) ==
    /\ UNCHANGED events
    /\ tasks[t].pc \in {"obs_api", "rfl_api"}
    /\ LET observer == tasks[t].pc = "obs_api"
           w0 == World(t)
           w1 == Goto(w0, IF observer THEN "obs_throw" ELSE "rfl_throw")
       IN Install(Run(Emit(w1, "api.failed"), env))
    /\ UNCHANGED <<omConfig, configFile, hostSession, activeScopeKey, nextSegId>>

\* every event, on a machine without the gemini command-line tool
Next ==
    \/ SessionStart
    \/ \E s \in Sessions : LoadState(s)
    \/ \E t \in Tasks, e \in TurnTokenEstimates, env \in ApiOnlyEnvs : TurnEnd(t, e, env)
    \/ \E t \in Tasks, m \in BOOLEAN, e \in CompactionTokenEstimates, env \in ApiOnlyEnvs :
          SessionBeforeCompact(t, m, e, env)
    \/ \E t \in Tasks, n \in BOOLEAN, env \in ApiOnlyEnvs : OmObserve(t, n, env)
    \/ \E t \in Tasks : WaitForIdleResumes(t)
    \/ \E t \in Tasks, env \in ApiOnlyEnvs : OmReflect(t, env)
    \/ OmClear
    \/ \E t \in Tasks, text \in ModelTexts, env \in ApiOnlyEnvs : ApiReturns(t, text, env)
    \/ \E t \in Tasks, env \in ApiOnlyEnvs : ApiThrows(t, env)

Spec == Init /\ [][Next]_vars

\* every event, the gemini command-line tool installed or not
NextCli ==
    \/ SessionStart
    \/ \E s \in Sessions : LoadState(s)
    \/ \E t \in Tasks, e \in TurnTokenEstimates, env \in Envs : TurnEnd(t, e, env)
    \/ \E t \in Tasks, m \in BOOLEAN, e \in CompactionTokenEstimates, env \in Envs :
          SessionBeforeCompact(t, m, e, env)
    \/ \E t \in Tasks, n \in BOOLEAN, env \in Envs : OmObserve(t, n, env)
    \/ \E t \in Tasks : WaitForIdleResumes(t)
    \/ \E t \in Tasks, env \in Envs : OmReflect(t, env)
    \/ OmClear
    \/ \E t \in Tasks, text \in ModelTexts \cup {EmptyText}, env \in Envs :
          CliReturns(t, text, env)
    \/ \E t \in Tasks, env \in Envs : CliFails(t, env)
    \/ \E t \in Tasks, text \in ModelTexts, env \in Envs : ApiReturns(t, text, env)
    \/ \E t \in Tasks, env \in Envs : ApiThrows(t, env)

SpecCli == Init /\ [][NextCli]_vars

\* ---------------------------------------------- long reflection histories
\* the history after n successful reflector runs, newest entry first: each
\* run put { beforeTokens, afterTokens } in front (line 1341)
PastReflections(n) ==
    [i \in 1..n |-> [beforeTokens |-> (n - i) + 2, afterTokens |-> 1]]

\* the history lengths a session starts the check with: almost full and full
HistoryLengths == {ReflectionHistoryMax - 2, ReflectionHistoryMax - 1, ReflectionHistoryMax}

\* a session in which n reflector runs have succeeded; the record on disk is
\* the one the last run wrote (persistState at line 1351 runs before the
\* finally block clears the flag)
InitHistory ==
    \E n \in HistoryLengths :
       LET st == [createInitialState EXCEPT
                     !.observations = <<1>>,
                     !.observationTokens = roughTextTokenizer(<<1>>),
                     !.observationRuns = 1,
                     !.reflectionRuns = n,
                     !.reflections = PastReflections(n)]
       IN /\ state = st
          /\ omConfig = DEFAULT_OM_CONFIG
          /\ configFile = "absent"
          /\ tasks = [t \in Tasks |-> IdleTask]
          /\ sessionLog = [s \in Sessions |->
                             <<[st EXCEPT !.isBufferingReflection = TRUE]>>]
          /\ hostSession = "s1"
          /\ activeScopeKey = "s1"
          /\ warnedMissingModel = FALSE
          /\ forceCompactionFromObserve = FALSE
          /\ geminiCliChecked = Undefined
          /\ nextSegId = 1
          /\ events = 0
          /\ lastStep = <<>>

\* reflections on demand, their replies, and session loads
NextHistory ==
    \/ \E s \in Sessions : LoadState(s)
    \/ \E t \in Tasks, env \in ApiOnlyEnvs : OmReflect(t, env)
    \/ \E t \in Tasks, text \in ModelTexts, env \in ApiOnlyEnvs : ApiReturns(t, text, env)
    \/ \E t \in Tasks, env \in ApiOnlyEnvs : ApiThrows(t, env)

SpecHistory == InitHistory /\ [][NextHistory]_vars

\* ------------------------------------------------ reading om-config.json
\* a value of the parsed JSON: absent, null, a string, a boolean, a number
\* too large for a double (1e999 parses to Infinity), or a finite number n
RawValue(type, n, b) == [type |-> type, n |-> n, b |-> b]
RawNumbers == {0 - MaxRawNumber, 0 - 1, 0, 1, MaxRawNumber}
RawValues ==
    {RawValue("undefined", 0, FALSE), RawValue("null", 0, FALSE),
     RawValue("string", MaxRawNumber, FALSE), RawValue("infinity", 0, FALSE)}
    \cup {RawValue("boolean", 0, b) : b \in BOOLEAN}
    \cup {RawValue("number", n, FALSE) : n \in RawNumbers}

\* the keys normalizeOmConfig passes through coerceNumber
NumericKeys ==
    {"recentTurnBudgetTokens", "maxObservationItems", "maxObserverTranscriptChars",
     "maxReflectorObservationsChars", "coreMemoryMaxTokens",
     "relevantObservationMaxItems", "relevantObservationMaxTokens",
     "reflectEveryNObservations", "reflectWhenObservationTokensOver",
     "autoObservePendingTokenThreshold"}

\* the third argument of coerceNumber: 0 for the threshold, else its default 1
MinOf(key) == IF key = "autoObservePendingTokenThreshold" THEN 0 ELSE 1

\* Number.isFinite(value): a number, and a finite one
NumberIsFinite(value) == value.type = "number"

\* coerceNumber, lines 275-278
coerceNumber(value, fallback, min) ==
    IF ~NumberIsFinite(value) THEN fallback
    ELSE Max(min, value.n)

\* normalizeOmConfig, lines 280-318, for the keys of the model's omConfig
normalizeOmConfig(raw) ==
    [key \in DOMAIN DEFAULT_OM_CONFIG |->
        IF key \in NumericKeys
        THEN coerceNumber(raw[key], DEFAULT_OM_CONFIG[key], MinOf(key))
        ELSE IF raw[key].type = "boolean" THEN raw[key].b
             ELSE DEFAULT_OM_CONFIG[key]]

\* loadOmConfig, lines 320-333, for a file that exists: JSON.parse throws on
\* a malformed file and the catch returns the defaults
loadOmConfigFile(file) ==
    IF file.valid THEN normalizeOmConfig(file.raw) ELSE DEFAULT_OM_CONFIG

\* a parsed file in which one key holds focus and every other key holds rest
RawConfig(focusKey, focus, rest) ==
    [key \in DOMAIN DEFAULT_OM_CONFIG |-> IF key = focusKey THEN focus ELSE rest]

\* the extension as constructed, next to an om-config.json of any content
InitNormalize ==
    /\ state = createInitialState
    /\ omConfig = DEFAULT_OM_CONFIG
    /\ configFile \in
          {[valid |-> v, raw |-> RawConfig(k, focus, rest)] :
              v \in BOOLEAN, k \in NumericKeys, focus \in RawValues, rest \in RawValues}
    /\ tasks = [t \in Tasks |-> IdleTask]
    /\ sessionLog = [s \in Sessions |-> NoEntry]
    /\ hostSession = "s1"
    /\ activeScopeKey = ""
    /\ warnedMissingModel = FALSE
    /\ forceCompactionFromObserve = FALSE
    /\ geminiCliChecked = Undefined
    /\ nextSegId = 1
    /\ events = 0
    /\ lastStep = <<>>

\* reloadOmConfig, lines 1119-1131
ReloadOmConfig ==
    /\ events = 0
    /\ events' = 1
    /\ omConfig' = loadOmConfigFile(configFile)
    /\ lastStep' = <<Ev("reloadOmConfig", EmptyText)>>
    /\ UNCHANGED <<state, configFile, tasks, sessionLog, hostSession, activeScopeKey,
                   warnedMissingModel, forceCompactionFromObserve, geminiCliChecked,
                   nextSegId>>

NextNormalize == ReloadOmConfig

SpecNormalize == InitNormalize /\ [][NextNormalize]_vars

\* ------------------------------------------------------- relative time
\* a Date is its getTime() in hours; the Date of a header or of an inline
\* date is the midnight that starts its day
HoursPerDay == 24
Midnight(day) == day * HoursPerDay

\* a phrase "<prefix><n> <unit><suffix>", n = 0 for the phrases without a number
Phrase(prefix, n, unit, suffix) == [prefix |-> prefix, n |-> n, unit |-> unit, suffix |-> suffix]
Word(unit) == Phrase("", 0, unit, "")
Ago(n, unit) == Phrase("", n, unit, " ago")
InFuture(n, unit) == Phrase("in ", n, unit, "")

\* Math.floor(diffMs / (1000 * 60 * 60 * 24))
DiffDays(from, to) == (to - from) \div HoursPerDay

\* formatRelativeTime, lines 433-454
formatRelativeTime(date, currentDate) ==
    LET diffDays == DiffDays(date, currentDate)
    IN IF diffDays < 0
       THEN LET futureDays == 0 - diffDays
            IN IF futureDays = 0 THEN Word("today")
               ELSE IF futureDays = 1 THEN Word("tomorrow")
               ELSE IF futureDays < 7 THEN InFuture(futureDays, "days")
               ELSE IF futureDays < 14 THEN InFuture(1, "week")
               ELSE IF futureDays < 30 THEN InFuture(futureDays \div 7, "weeks")
               ELSE InFuture(futureDays \div 30,
                             IF futureDays \div 30 > 1 THEN "months" ELSE "month")
       ELSE IF diffDays = 0 THEN Word("today")
       ELSE IF diffDays = 1 THEN Word("yesterday")
       ELSE IF diffDays < 7 THEN Ago(diffDays, "days")
       ELSE IF diffDays < 14 THEN Ago(1, "week")
       ELSE IF diffDays < 30 THEN Ago(diffDays \div 7, "weeks")
       ELSE IF diffDays < 60 THEN Ago(1, "month")
       ELSE IF diffDays < 365 THEN Ago(diffDays \div 30, "months")
       ELSE Ago(diffDays \div 365, IF diffDays \div 365 > 1 THEN "years" ELSE "year")

\* the days a date is drawn from, and the hours of day 0 the clock shows
DateDays == (0 - MaxDays)..MaxDays
ClockHours == {0, 12, 23}

\* the extension as constructed
InitRelativeTime ==
    /\ state = createInitialState
    /\ omConfig = DEFAULT_OM_CONFIG
    /\ configFile = "absent"
    /\ tasks = [t \in Tasks |-> IdleTask]
    /\ sessionLog = [s \in Sessions |-> NoEntry]
    /\ hostSession = "s1"
    /\ activeScopeKey = ""
    /\ warnedMissingModel = FALSE
    /\ forceCompactionFromObserve = FALSE
    /\ geminiCliChecked = Undefined
    /\ nextSegId = 1
    /\ events = 0
    /\ lastStep = <<>>

\* formatRelativeTime(date, currentDate) as expandInlineEstimatedDates and
\* addRelativeTimeToObservations call it (lines 515, 558)
FormatRelativeTime(day, hour) ==
    /\ events = 0
    /\ events' = 1
    /\ lastStep' = <<Ev("formatRelativeTime",
                        [date |-> Midnight(day), currentDate |-> hour,
                         result |-> formatRelativeTime(Midnight(day), hour)])>>
    /\ UNCHANGED <<state, omConfig, configFile, tasks, sessionLog, hostSession,
                   activeScopeKey, warnedMissingModel, forceCompactionFromObserve,
                   geminiCliChecked, nextSegId>>

NextRelativeTime == \E day \in DateDays, hour \in ClockHours : FormatRelativeTime(day, hour)

SpecRelativeTime == InitRelativeTime /\ [][NextRelativeTime]_vars

\* ------------------------------------------- rendering the observations
\* a line of the text to render: an ordinary line, a header "Date: <date>"
\* of a day, a header whose date new Date() cannot parse, or a line with an
\* inline "(estimated <date>)" after words of future intent or not
TextLine == [kind |-> "text", day |-> 0, intent |-> FALSE]
DateHeader(day) == [kind |-> "header", day |-> day, intent |-> FALSE]
BadHeader == [kind |-> "badheader", day |-> 0, intent |-> FALSE]
InlineDate(day, intent) == [kind |-> "inline", day |-> day, intent |-> intent]

\* the days of the headers: their distances cover every bucket of the gap
HeaderDays == {0 - 75, 0 - 40, 0 - 24, 0 - 10, 0 - 3, 0 - 1, 0}
RenderLines ==
    {TextLine, BadHeader, InlineDate(0 - 3, TRUE), InlineDate(5, FALSE)}
    \cup {DateHeader(day) : day \in HeaderDays}
RenderDocuments == SeqsUpTo(RenderLines, MaxRenderLines)

\* a rendered line: the line it came from (from.kind "none" for an inserted
\* line), the phrase put on it, and the "likely already happened" note
Rendered(kind, from, phrase, note) ==
    [kind |-> kind, from |-> from, phrase |-> phrase, note |-> note]
NoLine == [kind |-> "none", day |-> 0, intent |-> FALSE]
NoPhrase == Phrase("", 0, "", "")
Later(n, unit) == Phrase("[", n, unit, " later]")
\* the result null of formatGapBetweenDates
NoGap == NoPhrase

\* variant that also marks a gap of exactly one day
formatGapBetweenDates_FromOneDay(prevDate, currDate) ==
    LET diffDays == DiffDays(prevDate, currDate)
    IN IF diffDays < 1 THEN NoGap
       ELSE IF diffDays < 7 THEN Later(diffDays, "days")
       ELSE IF diffDays < 14 THEN Later(1, "week")
       ELSE IF diffDays < 30 THEN Later(diffDays \div 7, "weeks")
       ELSE IF diffDays < 60 THEN Later(1, "month")
       ELSE Later(diffDays \div 30, "months")

\* formatGapBetweenDates, lines 456-466
formatGapBetweenDates(prevDate, currDate) ==
    LET diffDays == DiffDays(prevDate, currDate)
    IN IF diffDays <= 1 THEN NoGap
       ELSE IF diffDays < 7 THEN Later(diffDays, "days")
       ELSE IF diffDays < 14 THEN Later(1, "week")
       ELSE IF diffDays < 30 THEN Later(diffDays \div 7, "weeks")
       ELSE IF diffDays < 60 THEN Later(1, "month")
       ELSE Later(diffDays \div 30, "months")

\* expandInlineEstimatedDates, lines 508-528, on one line
expandInlineEstimatedDates(line, currentDate) ==
    IF line.kind # "inline" THEN Rendered(line.kind, line, NoPhrase, FALSE)
    ELSE LET targetDate == Midnight(line.day)
             isPastDate == targetDate < currentDate
         IN Rendered("inline", line, formatRelativeTime(targetDate, currentDate),
                     isPastDate /\ line.intent)

\* addRelativeTimeToObservations, lines 556-569: the replacement of the
\* header at position i; hasPrev / prevDay: the parsed header before it
HeaderReplacement(line, hasPrev, prevDay, currentDate) ==
    LET relative == formatRelativeTime(Midnight(line.day), currentDate)
        header == Rendered("header", line, relative, FALSE)
        gap == IF hasPrev THEN formatGapBetweenDates(Midnight(prevDay), Midnight(line.day))
               ELSE NoGap
    IN IF gap # NoGap
       THEN <<Rendered("blank", NoLine, NoPhrase, FALSE),
              Rendered("gap", NoLine, gap, FALSE), header>>
       ELSE <<header>>

\* addRelativeTimeToObservations, lines 530-572, from line i on
RECURSIVE RenderFrom(_, _, _, _, _)
RenderFrom(lines, i, hasPrev, prevDay, currentDate) ==
    IF i > Len(lines) THEN <<>>
    ELSE IF lines[i].kind = "header"
         THEN HeaderReplacement(lines[i], hasPrev, prevDay, currentDate)
              \o RenderFrom(lines, i + 1, TRUE, lines[i].day, currentDate)
         ELSE <<expandInlineEstimatedDates(lines[i], currentDate)>>
              \o RenderFrom(lines, i + 1, hasPrev, prevDay, currentDate)

addRelativeTimeToObservations(observations, currentDate) ==
    RenderFrom(observations, 1, FALSE, 0, currentDate)

\* a session whose document is one of the texts to render
InitRender ==
    \E doc \in RenderDocuments :
       /\ state = [createInitialState EXCEPT
                      !.observations = doc,
                      !.observationTokens = 5 * Len(doc),
                      !.observationRuns = 1]
       /\ omConfig = DEFAULT_OM_CONFIG
       /\ configFile = "absent"
       /\ tasks = [t \in Tasks |-> IdleTask]
       /\ sessionLog = [s \in Sessions |-> NoEntry]
       /\ hostSession = "s1"
       /\ activeScopeKey = "s1"
       /\ warnedMissingModel = FALSE
       /\ forceCompactionFromObserve = FALSE
       /\ geminiCliChecked = Undefined
       /\ nextSegId = 1
       /\ events = 0
       /\ lastStep = <<>>

\* formatObservationalMemoryMessage, lines 656-661: the observations block
\* of the message built at clock time hour (new Date())
RenderObservations(hour) ==
    /\ events = 0
    /\ events' = 1
    /\ lastStep' = <<Ev("addRelativeTimeToObservations",
                        [currentDate |-> hour,
                         result |-> IF state.observations = <<>> THEN <<>>
                                    ELSE addRelativeTimeToObservations(state.observations,
                                                                       hour)])>>
    /\ UNCHANGED <<state, omConfig, configFile, tasks, sessionLog, hostSession,
                   activeScopeKey, warnedMissingModel, forceCompactionFromObserve,
                   geminiCliChecked, nextSegId>>

NextRender == \E hour \in ClockHours : RenderObservations(hour)

SpecRender == InitRender /\ [][NextRender]_vars

\* ------------------------------------------------------------ two scopes
\* the sessions the host can switch between (scope "thread": one document
\* per session, resolveScopeKey lines 1099-1109)
Scopes == {"s1", "s2"}

\* a document persisted for the second session: one line observed, one
\* segment of a turn pending
OtherDocument ==
    [createInitialState EXCEPT
        !.observations = <<2>>,
        !.observationTokens = roughTextTokenizer(<<2>>),
        !.observationRuns = 1,
        !.pendingSegments = <<[id |-> 0, tokens |-> 1]>>,
        !.pendingTokens = 1]

\* the extension as constructed, the host holding two sessions
InitScopes ==
    /\ state = createInitialState
    /\ omConfig = DEFAULT_OM_CONFIG
    /\ configFile = "small"
    /\ tasks = [t \in Tasks |-> IdleTask]
    /\ sessionLog \in {[s \in Scopes |-> NoEntry],
                       [s \in Scopes |-> IF s = "s2" THEN <<OtherDocument>> ELSE NoEntry]}
    /\ hostSession = "s1"
    /\ activeScopeKey = ""
    /\ warnedMissingModel = FALSE
    /\ forceCompactionFromObserve = FALSE
    /\ geminiCliChecked = Undefined
    /\ nextSegId = 1
    /\ events = 0
    /\ lastStep = <<>>

\* every event of Next, the host switching between its two sessions
NextScopes ==
    \/ Next
    \/ \E s \in Scopes : LoadState(s)

SpecScopes == InitScopes /\ [][NextScopes]_vars

\* the runs and their two channels: turns, reflections on demand and every
\* outcome of the command-line tool and of the API
NextChannels ==
    \/ SessionStart
    \/ \E t \in Tasks, e \in TurnTokenEstimates, env \in Envs : TurnEnd(t, e, env)
    \/ \E t \in Tasks, env \in Envs : OmReflect(t, env)
    \/ \E t \in Tasks, text \in ModelTexts \cup {EmptyText}, env \in Envs :
          CliReturns(t, text, env)
    \/ \E t \in Tasks, env \in Envs : CliFails(t, env)
    \/ \E t \in Tasks, text \in ModelTexts, env \in Envs : ApiReturns(t, text, env)
    \/ \E t \in Tasks, env \in Envs : ApiThrows(t, env)

SpecChannels == Init /\ [][NextChannels]_vars

\* ------------------------------------------------- the event's abort signal
\* whether the external call t is suspended in was given the signal of the
\* session_before_compact event: observeNow passes opts.signal on to
\* runObserverCall (lines 1376, 1464); reflectNow has no signal option and
\* calls runReflectorCall without one (lines 1306-1309, 1331)
CallHasSignal(task) == task.pc \in {"obs_cli", "obs_api"}

\* what complete() does when its signal aborts: it rejects, or it resolves
\* with a response without text
AbortOutcomes == {"throws", "empty"}

\* event.signal of a session_before_compact event aborts while a call made
\* for that event is in flight.  With the signal, callGeminiCli kills the
\* child and rejects (lines 1090-1095), which the run catches, and complete()
\* ends as outcome says; without it nothing happens to the call
AbortSignalFires(t, outcome, env) ==
    /\ UNCHANGED events
    /\ tasks[t].kind = "session_before_compact"
    /\ tasks[t].pc \in {"obs_cli", "obs_api", "rfl_cli", "rfl_api"}
    /\ LET w0 == Emit(World(t), "signal.abort")
           pc == tasks[t].pc
           w1 == Emit(w0, "call.cancelled")
           w2 == IF ~CallHasSignal(tasks[t]) THEN w0
                 ELSE CASE pc = "obs_cli" -> Goto(w1, "runObserverApi")
                        [] pc = "rfl_cli" -> Goto(w1, "runReflectorApi")
                        [] pc = "obs_api" ->
                             IF outcome = "throws" THEN Goto(w1, "obs_throw")
                             ELSE Goto([w1 EXCEPT !.task.text = EmptyText], "obs_parse")
                        [] pc = "rfl_api" ->
                             IF outcome = "throws" THEN Goto(w1, "rfl_throw")
                             ELSE Goto([w1 EXCEPT !.task.text = EmptyText], "rfl_parse")
       IN Install(Run(w2, env))
    /\ UNCHANGED <<omConfig, configFile, hostSession, activeScopeKey, nextSegId>>

\* compactions, the replies to their calls, and their signals aborting
NextAbort ==
    \/ SessionStart
    \/ \E t \in Tasks, m \in BOOLEAN, e \in CompactionTokenEstimates, env \in Envs :
          SessionBeforeCompact(t, m, e, env)
    \/ \E t \in Tasks, text \in ModelTexts \cup {EmptyText}, env \in Envs :
          CliReturns(t, text, env)
    \/ \E t \in Tasks, env \in Envs : CliFails(t, env)
    \/ \E t \in Tasks, text \in ModelTexts, env \in Envs : ApiReturns(t, text, env)
    \/ \E t \in Tasks, env \in Envs : ApiThrows(t, env)
    \/ \E t \in Tasks, outcome \in AbortOutcomes, env \in Envs :
          AbortSignalFires(t, outcome, env)

SpecAbort == Init /\ [][NextAbort]_vars

\* one session without loads or resets: turns and the replies to their
\* observer and reflector calls, the API model present or not at each run
NextWarn ==
    \/ SessionStart
    \/ \E t \in Tasks, e \in TurnTokenEstimates, env \in ApiOnlyEnvs : TurnEnd(t, e, env)
    \/ \E t \in Tasks, text \in ModelTexts, env \in ApiOnlyEnvs : ApiReturns(t, text, env)
    \/ \E t \in Tasks, env \in ApiOnlyEnvs : ApiThrows(t, env)

SpecWarn == Init /\ [][NextWarn]_vars

\* -------------------------------------------------- forced compaction
\* a session after one turn below the auto-observe threshold: its segment is
\* pending and persisted (turn_end, lines 1426-1443)
InitCompact ==
    LET st == [createInitialState EXCEPT
                  !.pendingSegments = <<[id |-> 0, tokens |-> 1]>>,
                  !.pendingTokens = 1]
    IN /\ state = st
       /\ omConfig = DEFAULT_OM_CONFIG
       /\ configFile = "absent"
       /\ tasks = [t \in Tasks |-> IdleTask]
       /\ sessionLog = [s \in Sessions |-> <<st>>]
       /\ hostSession = "s1"
       /\ activeScopeKey = "s1"
       /\ warnedMissingModel = FALSE
       /\ forceCompactionFromObserve = FALSE
       /\ geminiCliChecked = Undefined
       /\ nextSegId = 1
       /\ events = 0
       /\ lastStep = <<>>

\* the onError callback given to ctx.compact, lines 1651-1654
CompactionFails ==
    /\ forceCompactionFromObserve
    /\ forceCompactionFromObserve' = FALSE
    /\ lastStep' = <<Ev("compact.onError", EmptyText)>>
    /\ UNCHANGED <<state, omConfig, configFile, tasks, sessionLog, hostSession,
                   activeScopeKey, warnedMissingModel, geminiCliChecked, nextSegId, events>>

\* /om-observe, the compactions it forces and those of the host
NextCompact ==
    \/ \E t \in Tasks, n \in BOOLEAN, env \in ApiOnlyEnvs : OmObserve(t, n, env)
    \/ \E t \in Tasks : WaitForIdleResumes(t)
    \/ \E t \in Tasks, m \in BOOLEAN, e \in CompactionTokenEstimates, env \in ApiOnlyEnvs :
          SessionBeforeCompact(t, m, e, env)
    \/ \E t \in Tasks, text \in ModelTexts, env \in ApiOnlyEnvs : ApiReturns(t, text, env)
    \/ \E t \in Tasks, env \in ApiOnlyEnvs : ApiThrows(t, env)
    \/ CompactionFails

SpecCompact == InitCompact /\ [][NextCompact]_vars

\* ------------------------------------------------- the observer's prompt
\* "\n\n---\n\n", the separator of buildTranscriptFromSegments (line 653)
SeparatorLength == 7

MaxPending == 3

\* lengths of a segment's text, and values of maxObserverTranscriptChars
SegmentChars == {1, 5, 10}

TranscriptCaps == {10, 20, 200000}

\* where the text of segment i ends in the joined transcript (line 653)
RECURSIVE TextEnd(_, _)
TextEnd(segments, i) ==
    IF i = 0 THEN 0
    ELSE IF i = 1 THEN segments[1].chars
    ELSE TextEnd(segments, i - 1) + SeparatorLength + segments[i].chars

TranscriptLength(segments) == TextEnd(segments, Len(segments))

\* buildObserverPrompt, lines 869-872: for each segment of the transcript,
\* how many characters of its text are in the prompt
buildObserverPrompt(segments, cap) ==
    LET length == TranscriptLength(segments)
        kept == IF length > cap THEN cap ELSE length      \* slice(0, cap)
    IN [i \in 1..Len(segments) |->
          [id |-> segments[i].id,
           sent |-> Max(0, (IF TextEnd(segments, i) <= kept
                            THEN TextEnd(segments, i) ELSE kept)
                           - (TextEnd(segments, i) - segments[i].chars))]]

\* a session with pending segments of the given lengths; om-config.json
\* sets maxObserverTranscriptChars (no action of this specification reads
\* the file again)
InitPrompt ==
    \E n \in 1..MaxPending, cap \in TranscriptCaps :
       \E chars \in [1..n -> SegmentChars] :
          LET st == [createInitialState EXCEPT
                        !.pendingSegments =
                            [i \in 1..n |-> [id |-> i - 1, tokens |-> 1, chars |-> chars[i]]],
                        !.pendingTokens = n]
          IN /\ state = st
             /\ omConfig = [DEFAULT_OM_CONFIG EXCEPT !.maxObserverTranscriptChars = cap]
             /\ configFile = "absent"
             /\ tasks = [t \in Tasks |-> IdleTask]
             /\ sessionLog = [s \in Sessions |-> <<st>>]
             /\ hostSession = "s1"
             /\ activeScopeKey = "s1"
             /\ warnedMissingModel = FALSE
             /\ forceCompactionFromObserve = FALSE
             /\ geminiCliChecked = Undefined
             /\ nextSegId = n
             /\ events = 0
             /\ lastStep = <<>>

\* /om-observe --no-compact and the outcomes of its observer call
NextPrompt ==
    \/ \E t \in Tasks, env \in ApiOnlyEnvs : OmObserve(t, TRUE, env)
    \/ \E t \in Tasks, text \in ModelTexts, env \in ApiOnlyEnvs : ApiReturns(t, text, env)
    \/ \E t \in Tasks, env \in ApiOnlyEnvs : ApiThrows(t, env)

SpecPrompt == InitPrompt /\ [][NextPrompt]_vars

\* -------------------------------------------------------------- the reset
\* one session without loads: turns, /om-reflect, /om-clear and the
\* outcomes of the observer and reflector calls
NextReset ==
    \/ SessionStart
    \/ \E t \in Tasks, e \in TurnTokenEstimates, env \in ApiOnlyEnvs : TurnEnd(t, e, env)
    \/ \E t \in Tasks, env \in ApiOnlyEnvs : OmReflect(t, env)
    \/ OmClear
    \/ \E t \in Tasks, text \in ModelTexts, env \in ApiOnlyEnvs : ApiReturns(t, text, env)
    \/ \E t \in Tasks, env \in ApiOnlyEnvs : ApiThrows(t, env)

SpecReset == Init /\ [][NextReset]_vars

\* every event of Next, /om-reflect being served by either copy of the handler
NextVariants ==
    \/ Next
    \/ \E t \in Tasks, env \in ApiOnlyEnvs : OmReflectSecondVariant(t, env)

SpecVariants == Init /\ [][NextVariants]_vars

\* ------------------------------------------------- the context handler
OM_CONTEXT_CUSTOM_TYPE == "observational-memory-context"
OM_CONTINUATION_CUSTOM_TYPE == "observational-memory-continuation"

\* a message: its role, its customType, the tokens roughTextTokenizer gives
\* its content and whether the content includes OM_MARKER
Msg(role, customType, tokens, marker) ==
    [role |-> role, customType |-> customType, tokens |-> tokens, marker |-> marker]
omContextMessage == Msg("custom", OM_CONTEXT_CUSTOM_TYPE, 0, TRUE)
omContinuationMessage == Msg("custom", OM_CONTINUATION_CUSTOM_TYPE, 0, FALSE)
\* what event.messages is made of
InputMessages ==
    {Msg("user", "", 1, FALSE), Msg("assistant", "", 2, FALSE),
     Msg("toolResult", "", 1, FALSE), Msg("system", "", 1, FALSE),
     Msg("system", "", 1, TRUE), Msg("custom", "other", 1, FALSE),
     omContextMessage, omContinuationMessage}
MessageLists == SeqsUpTo(InputMessages, MaxMessages)

systemMessages(messages) == SelectSeq(messages, LAMBDA m : m.role = "system")
nonSystemMessages(messages) == SelectSeq(messages, LAMBDA m : m.role # "system")
\* variant without the filter
cleanedNonSystemMessages_KeepsInjected(messages) == nonSystemMessages(messages)

cleanedNonSystemMessages(messages) ==
    SelectSeq(nonSystemMessages(messages),
              LAMBDA m : /\ ~(m.role = "custom" /\ m.customType = OM_CONTEXT_CUSTOM_TYPE)
                         /\ ~(m.role = "custom" /\ m.customType = OM_CONTINUATION_CUSTOM_TYPE)
                         /\ ~(m.role = "system" /\ m.marker))

isTurnBoundary(msg) ==
    msg.role \in {"user", "custom", "branchSummary", "compactionSummary", "bashExecution"}

\* the loop of lines 848-855, from message i down; start is Len + 1 while
\* nothing is selected
RECURSIVE BudgetStart(_, _, _, _, _)
BudgetStart(messages, budgetTokens, i, start, used) ==
    IF i = 0 THEN start
    ELSE IF used + messages[i].tokens > budgetTokens /\ start < Len(messages) + 1
         THEN start
         ELSE BudgetStart(messages, budgetTokens, i - 1, i, used + messages[i].tokens)

\* the loop of lines 862-864
RECURSIVE BoundaryStart(_, _)
BoundaryStart(messages, start) ==
    IF start > 1 /\ ~isTurnBoundary(messages[start])
    THEN BoundaryStart(messages, start - 1)
    ELSE start

selectRecentTurnsByTokenBudget(messages, budgetTokens) ==
    IF messages = <<>> THEN <<>>
    ELSE SubSeq(messages,
                BoundaryStart(messages,
                              BudgetStart(messages, budgetTokens, Len(messages),
                                          Len(messages) + 1, 0)),
                Len(messages))

recentMessages(messages) ==
    selectRecentTurnsByTokenBudget(cleanedNonSystemMessages(messages),
                                   omConfig.recentTurnBudgetTokens)

hasObservations(st) == st.observations # <<>>

\* variant that does not look at the first recent message
needsContinuationHint_AnyWindow(st, recent) == hasObservations(st) /\ Len(recent) > 0

needsContinuationHint(st, recent) ==
    hasObservations(st) /\ Len(recent) > 0 /\ recent[1].role # "user"

\* pi.on("context"): the list handed back to the host
finalMessages(st, messages) ==
    LET recent == recentMessages(messages)
    IN IF hasObservations(st)
       THEN IF needsContinuationHint(st, recent)
            THEN systemMessages(messages) \o <<omContextMessage, omContinuationMessage>>
                   \o recent
            ELSE systemMessages(messages) \o <<omContextMessage>> \o recent
       ELSE systemMessages(messages) \o recent

InitContext ==
    /\ state \in {createInitialState,
                   [createInitialState EXCEPT !.observations = <<1>>,
                                              !.observationTokens = roughTextTokenizer(<<1>>),
                                              !.observationRuns = 1]}
    /\ omConfig \in {DEFAULT_OM_CONFIG, ConfigSmall}
    /\ configFile = IF omConfig = ConfigSmall THEN "small" ELSE "absent"
    /\ tasks = [t \in Tasks |-> IdleTask]
    /\ sessionLog = [s \in Sessions |-> NoEntry]
    /\ hostSession = "s1"
    /\ activeScopeKey = "s1"
    /\ warnedMissingModel = FALSE
    /\ forceCompactionFromObserve = FALSE
    /\ geminiCliChecked = Undefined
    /\ nextSegId = 1
    /\ events = 0
    /\ lastStep = <<>>

\* the host builds a prompt: the handler reads state and omConfig and writes
\* nothing, so one call from each initial state covers every call
Context(messages) ==
    /\ events = 0
    /\ events' = 1
    /\ lastStep' = <<Ev("context", [input |-> messages,
                                    output |-> finalMessages(state, messages)])>>
    /\ UNCHANGED <<state, omConfig, configFile, tasks, sessionLog, hostSession,
                   activeScopeKey, warnedMissingModel, forceCompactionFromObserve,
                   geminiCliChecked, nextSegId>>

NextContext == \E messages \in MessageLists : Context(messages)

SpecContext == InitContext /\ [][NextContext]_vars

\* ------------------------------------ buildCoreAndRelevantObservations
\* the words of stored line l (l three-letter words, none a stopword)
LineWords(l) ==
    CASE l = 1 -> {"foo"}
      [] l = 2 -> {"bar", "baz"}
      [] l = 3 -> {"foo", "bar", "qux"}
      [] OTHER -> {}
\* keywordSet(queryText) of the last messages: no keyword, keywords that occur
\* in lines, a keyword that occurs in none
QueryKeySets == SUBSET {"foo", "bar", "zzz"}
RelevanceDocuments == SeqsUpTo({1, 2, 3}, MaxRelevanceLines)

\* Array.prototype.reverse
Reverse(s) == [i \in 1..Len(s) |-> s[Len(s) + 1 - i]]

RECURSIVE TrimLoop(_, _, _, _)
TrimLoop(lines, maxTokens, out, used) ==
    IF lines = <<>> THEN out
    ELSE LET t == roughTextTokenizer(<<Head(lines)>>)
         IN IF Len(out) > 0 /\ used + t > maxTokens THEN out
            ELSE TrimLoop(Tail(lines), maxTokens, Append(out, Head(lines)), used + t)

\* variant without the budget
trimLinesToTokenBudget_NoLimit(lines, maxTokens) == lines

trimLinesToTokenBudget(lines, maxTokens) == TrimLoop(lines, maxTokens, <<>>, 0)

\* for (const key of keys) if (line.toLowerCase().includes(key)) score += 1
lineScore(line, keys) == Cardinality({key \in keys : key \in LineWords(line)})

rankedItems(allLines, keys) ==
    [i \in 1..Len(allLines) |->
        [line |-> allLines[i], index |-> i, score |-> lineScore(allLines[i], keys)]]

\* (b.score - a.score) || (b.index - a.index) < 0
ByScoreThenRecent(a, b) ==
    a.score > b.score \/ (a.score = b.score /\ a.index > b.index)
\* b.index - a.index < 0
ByRecent(a, b) == a.index > b.index

\* variant that breaks ties in favour of the older line
sortRanked_OldestFirst(items, keys) ==
    IF keys # {}
    THEN SortSeq(SelectSeq(items, LAMBDA r : r.score > 0),
                 LAMBDA a, b : a.score > b.score \/ (a.score = b.score /\ a.index < b.index))
    ELSE SortSeq(items, LAMBDA a, b : a.index < b.index)

\* lines 750-755
sortRanked(items, keys) ==
    IF keys # {}
    THEN SortSeq(SelectSeq(items, LAMBDA r : r.score > 0), ByScoreThenRecent)
    ELSE SortSeq(items, ByRecent)

\* the loop of lines 759-764
RECURSIVE RelevantLoop(_, _, _, _)
RelevantLoop(ranked, unique, out, maxItems) ==
    IF ranked = <<>> THEN out
    ELSE LET item == Head(ranked)
         IN IF item.line \in unique
            THEN RelevantLoop(Tail(ranked), unique, out, maxItems)
            ELSE IF Len(out) + 1 >= maxItems
                 THEN Append(out, item.line)
                 ELSE RelevantLoop(Tail(ranked), unique \cup {item.line},
                                   Append(out, item.line), maxItems)

\* variant whose set of seen lines starts empty
relevantRaw_IgnoresCore(ranked, core, maxItems) == RelevantLoop(ranked, {}, <<>>, maxItems)

\* const unique = new Set(core) and the loop after it
relevantRaw(ranked, core, maxItems) == RelevantLoop(ranked, Range(core), <<>>, maxItems)

\* keys stands for keywordSet of the text of the last six recent messages
buildCoreAndRelevantObservations(st, keys) ==
    LET allLines == SplitTrimFilter(AsRaw(st.observations))
    IN IF allLines = <<>> THEN [core |-> <<>>, relevant |-> <<>>]
       ELSE LET core == Reverse(trimLinesToTokenBudget(Reverse(allLines),
                                                       omConfig.coreMemoryMaxTokens))
                ranked == sortRanked(rankedItems(allLines, keys), keys)
                raw == relevantRaw(ranked, core, omConfig.relevantObservationMaxItems)
            IN [core |-> core,
                relevant |-> trimLinesToTokenBudget(raw,
                                                    omConfig.relevantObservationMaxTokens)]

InitRelevance ==
    /\ state \in {[createInitialState EXCEPT !.observations = d,
                                              !.observationTokens = roughTextTokenizer(d)] :
                     d \in RelevanceDocuments}
    /\ omConfig \in {[DEFAULT_OM_CONFIG EXCEPT !.coreMemoryMaxTokens = c,
                                               !.relevantObservationMaxItems = n,
                                               !.relevantObservationMaxTokens = r] :
                       c \in {1, 3}, n \in {1, 2}, r \in {1, 4}}
    /\ configFile = "absent"
    /\ tasks = [t \in Tasks |-> IdleTask]
    /\ sessionLog = [s \in Sessions |-> NoEntry]
    /\ hostSession = "s1"
    /\ activeScopeKey = "s1"
    /\ warnedMissingModel = FALSE
    /\ forceCompactionFromObserve = FALSE
    /\ geminiCliChecked = Undefined
    /\ nextSegId = 1
    /\ events = 0
    /\ lastStep = <<>>

\* formatCoreRelevantMemoryMessage asks for the two sets; nothing is written
SelectRelevant(keys) ==
    /\ events = 0
    /\ events' = 1
    /\ lastStep' = <<Ev("relevance", [keys |-> keys,
                                      parts |-> buildCoreAndRelevantObservations(state, keys)])>>
    /\ UNCHANGED <<state, omConfig, configFile, tasks, sessionLog, hostSession,
                   activeScopeKey, warnedMissingModel, forceCompactionFromObserve,
                   geminiCliChecked, nextSegId>>

NextRelevance == \E keys \in QueryKeySets : SelectRelevant(keys)

SpecRelevance == InitRelevance /\ [][NextRelevance]_vars

\* ------------------------------------- mergeObservationItems on its own
\* stored documents: trimmed non-empty lines
MergeDocuments == SeqsUpTo({1, 2}, MaxDocLines)
\* new texts: raw lines, blank and padded ones included
MergeIncoming == SeqsUpTo({Blank, Raw(1), Raw(2), Padded(1)}, MaxIncomingLines)

InitMerge ==
    /\ state \in {[createInitialState EXCEPT !.observations = d] : d \in MergeDocuments}
    /\ omConfig \in {[DEFAULT_OM_CONFIG EXCEPT !.maxObservationItems = c] : c \in 1..MaxCap}
    /\ configFile = "absent"
    /\ tasks = [t \in Tasks |-> IdleTask]
    /\ sessionLog = [s \in Sessions |-> NoEntry]
    /\ hostSession = "s1"
    /\ activeScopeKey = ""
    /\ warnedMissingModel = FALSE
    /\ forceCompactionFromObserve = FALSE
    /\ geminiCliChecked = Undefined
    /\ nextSegId = 1
    /\ events = 0
    /\ lastStep = <<>>

\* state.observations = mergeObservationItems(state.observations, incoming)
MergeObservations(incoming) ==
    /\ state' = [state EXCEPT !.observations =
                     mergeObservationItems(AsRaw(state.observations), incoming)]
    /\ lastStep' = <<Ev("merge", incoming)>>
    /\ UNCHANGED <<omConfig, configFile, tasks, sessionLog, hostSession,
                   activeScopeKey, warnedMissingModel, forceCompactionFromObserve,
                   geminiCliChecked, nextSegId, events>>

NextMerge == \E incoming \in MergeIncoming : MergeObservations(incoming)

SpecMerge == InitMerge /\ [][NextMerge]_vars

\* every event of Next, and the configuration edited while the session runs
NextConfig ==
    \/ Next
    \/ \E edited \in EditorResults : OmConfigEdit(edited)

SpecConfig == Init /\ [][NextConfig]_vars


\* ------------------------------------------------- vocabulary of the claims
Did(op) == \E i \in 1..Len(lastStep) : lastStep[i].op = op
ObserverInFlight(t) == tasks[t].pc \in {"obs_cli", "obs_api"}
ReflectorInFlight(t) == tasks[t].pc \in {"rfl_cli", "rfl_api"}
\* the observer run of t is still open: its own call, or the reflection nested in it
InObserverRun(t) == ObserverInFlight(t) \/ (ReflectorInFlight(t) /\ tasks[t].nested)
\* the handler invocation that ran in this step
Acting(t) == tasks'[t] # tasks[t]
\* pending' is pending, plus the segment the step's own handler appended
PendingKept ==
    IF Len(state'.pendingSegments) = Len(state.pendingSegments)
    THEN state'.pendingSegments = state.pendingSegments
    ELSE /\ (Did("turn_end") \/ Did("session_before_compact"))'
         /\ Len(state'.pendingSegments) = Len(state.pendingSegments) + 1
         /\ SubSeq(state'.pendingSegments, 1, Len(state.pendingSegments)) = state.pendingSegments
DocumentKept ==
    /\ state'.observations = state.observations
    /\ state'.currentTask = state.currentTask
    /\ state'.suggestedResponse = state.suggestedResponse
    /\ state'.observationRuns = state.observationRuns
    /\ state'.reflectionRuns = state.reflectionRuns
    /\ state'.reflections = state.reflections
\* the trimmed non-empty lines of a reply, in order
TrimmedNonEmptyLines(raw) ==
    LET kept == SelectSeq(raw, LAMBDA r : r.body # 0)
    IN [i \in 1..Len(kept) |-> kept[i].body]
CommitText(op) ==
    lastStep[CHOOSE i \in 1..Len(lastStep) : lastStep[i].op = op].text

\* ------------------------------------------------------------------- C1
\* C1: when an observer run commits, every segment that was pending but was
\* not in the transcript the run built is still pending afterwards.
C1_OnlySnapshotCleared ==
    [][\A t \in Tasks :
         (Acting(t) /\ ObserverInFlight(t) /\ Did("observer.commit")')
         => \A i \in 1..Len(state.pendingSegments) :
               state.pendingSegments[i].id \notin Range(tasks[t].transcript)
               => state.pendingSegments[i] \in Range(state'.pendingSegments)]_vars

\* ------------------------------------------------------------------- C2
\* C2: a request for an observer (reflector) run that arrives while
\* isBufferingObservation (isBufferingReflection) is true is refused: it
\* returns false, starts no external call, and leaves observations, the
\* counters and the pending segments as they were.
C2_SameKindRefused ==
    [][/\ (state.isBufferingObservation /\ Did("observeNow.enter")')
          => /\ Did("observeNow.refused")'
             /\ ~Did("observer.cli")' /\ ~Did("observer.api")'
             /\ ~Did("observer.commit")'
             /\ DocumentKept /\ PendingKept
       /\ (state.isBufferingReflection /\ Did("reflectNow.enter")')
          => /\ Did("reflectNow.refused")'
             /\ ~Did("reflector.cli")' /\ ~Did("reflector.api")'
             /\ ~Did("reflector.commit")'
             /\ state'.reflectionRuns = state.reflectionRuns
             /\ state'.reflections = state.reflections
             /\ ~Did("observer.commit")' => (DocumentKept /\ PendingKept)]_vars

\* a request was refused because of the flag alone (segments were pending)
C2_Witness ==
    /\ Did("observeNow.refused")
    /\ state.isBufferingObservation
    /\ state.pendingSegments # <<>>

\* ------------------------------------------------------------------- C3
\* C3: at most one observer external call and at most one reflector
\* external call are in flight, whatever events were interleaved.
C3_SingleFlight ==
    /\ Cardinality({t \in Tasks : ObserverInFlight(t)}) <= 1
    /\ Cardinality({t \in Tasks : ReflectorInFlight(t)}) <= 1

\* ------------------------------------------------------------------- C4
\* C4: a run's flag is true in the live document as long as its external call
\* is in flight, and false once the run has ended (return or exception).
C4_FlagCoversRun ==
    /\ [](\A t \in Tasks :
            /\ ObserverInFlight(t) => state.isBufferingObservation
            /\ ReflectorInFlight(t) => state.isBufferingReflection)
    /\ [][/\ (Did("observeNow.true") \/ Did("observeNow.false") \/ Did("observeNow.throw"))'
             => ~state'.isBufferingObservation
          /\ (\A t \in Tasks : Acting(t) /\ ReflectorInFlight(t) /\ ~ReflectorInFlight(t)')
             => ~state'.isBufferingReflection]_vars

\* ------------------------------------------------------------------- C5
\* C5 as stated: the two flags are never both true.
C5_NeverBoth == ~(state.isBufferingObservation /\ state.isBufferingReflection)

\* C5 amended: both flags are true only while a reflector run is open next to
\* an open observer run (the auto-periodic reflection nested in observeNow, or
\* a run of the other kind requested meanwhile).
C5_BothOnlyWhileBothRun ==
    (state.isBufferingObservation /\ state.isBufferingReflection)
    => /\ \E t \in Tasks : ReflectorInFlight(t)
       /\ \E t \in Tasks : InObserverRun(t)

C5_Witness ==
    /\ state.isBufferingObservation /\ state.isBufferingReflection
    /\ \E t \in Tasks : ReflectorInFlight(t) /\ tasks[t].nested

\* ------------------------------------------------------------------- C6
\* C6: a turn_end whose threshold condition holds starts an observer run
\* whenever a reflector call is in flight and no observer call is; a reflector
\* request starts a run whenever an observer call is in flight and no
\* reflector call is (reflection enabled, observations present).
C6_OtherKindNeverBlocks ==
    [][/\ ( /\ \E t \in Tasks : ReflectorInFlight(t)
            /\ \A t \in Tasks : ~ObserverInFlight(t)
            /\ Did("turn_end")' /\ Did("observeNow.enter")' )
          => ~Did("observeNow.refused")'
       /\ ( /\ \E t \in Tasks : ObserverInFlight(t)
            /\ \A t \in Tasks : ~ReflectorInFlight(t)
            /\ Did("reflectNow.enter")'
            /\ omConfig.enableReflection /\ state'.observations # <<>> )
          => ~Did("reflectNow.refused")']_vars

\* ------------------------------------------------------------------- C7
\* C7: an observer run that returns false because no channel was available
\* or the parsed observations were empty leaves observations, currentTask,
\* suggestedResponse, observationRuns and the pending segments untouched.
C7_FailedObserveKeepsAll ==
    [][Did("observeNow.false")' => (DocumentKept /\ PendingKept)]_vars

C7_Witness ==
    /\ Did("observeNow.false")
    /\ state.pendingSegments # <<>>
    /\ state.observations # <<>>

\* ------------------------------------------------------------------- C8
\* C8: after a reflector commit, observations are exactly the trimmed
\* non-empty lines of the parsed reply (the last maxObservationItems of
\* them); no line of the run's input that the reply omits remains.
C8_ReflectReplaces ==
    [][Did("reflector.commit")'
       => LET reply == TrimmedNonEmptyLines(CommitText("reflector.commit")'.observations)
          IN /\ state'.observations = LastN(reply, omConfig.maxObservationItems)
             /\ \A t \in Tasks : Acting(t) =>
                   \A l \in Range(tasks[t].beforeObservations) \ Range(reply) :
                       l \notin Range(state'.observations)]_vars

\* a commit that replaced a document holding a line the reply omits, and
\* that cut the reply at the cap
C8_Witness ==
    /\ Did("reflector.commit")
    /\ Len(TrimmedNonEmptyLines(CommitText("reflector.commit").observations))
          > Len(state.observations)
    /\ state.observations # <<>>

\* ------------------------------------------------------------------- C9
\* C9: a reflector run that ends without a commit and without an exception
\* returns false and leaves observations, currentTask, suggestedResponse,
\* reflectionRuns and the reflection history untouched.
C9_FailedReflectKeepsAll ==
    [][/\ (\A t \in Tasks :
             (Acting(t) /\ ReflectorInFlight(t) /\ ~ReflectorInFlight(t)'
                /\ ~Did("reflector.commit")' /\ ~Did("reflectNow.throw")')
             => Did("reflectNow.false")')
       /\ Did("reflectNow.false")'
          => /\ state'.reflectionRuns = state.reflectionRuns
             /\ state'.reflections = state.reflections
             /\ ~Did("observer.commit")' => DocumentKept]_vars

C9_Witness ==
    /\ Did("reflectNow.false")
    /\ ~Did("observer.commit")
    /\ state.observations # <<>>

\* ------------------------------------------------------------------ C10
\* C10: a line that is in observations when a reflector run commits is still
\* there afterwards unless it was part of that run's input.
C10_NoCommittedLineLost ==
    [][\A t \in Tasks :
         (Acting(t) /\ ReflectorInFlight(t) /\ Did("reflector.commit")')
         => \A l \in Range(state.observations) :
               l \in Range(tasks[t].beforeObservations) \/ l \in Range(state'.observations)]_vars

\* ------------------------------------------------------------------ C11
\* C11: in every reachable state the observations document holds at most
\* maxObservationItems lines of the configuration in force, also after the
\* configuration was edited to a lower cap and after a session load.
C11_WithinCap ==
    Len(state.observations) <= omConfig.maxObservationItems

\* ------------------------------------------------------------------ C12
\* the last Min(c, |all|) elements of all, written out by index
Min(a, b) == IF a <= b THEN a ELSE b
TailOf(all, c) ==
    LET k == Min(c, Len(all))
    IN [i \in 1..k |-> all[Len(all) - k + i]]

C13_PendingTokensIsSum ==
    state.pendingTokens =
        SumSeq([i \in 1..Len(state.pendingSegments) |-> state.pendingSegments[i].tokens])

\* a session load restored two segments of different sizes
C13_Witness ==
    /\ Did("loadState")
    /\ Len(state.pendingSegments) = 2
    /\ state.pendingSegments[1].tokens # state.pendingSegments[2].tokens
    /\ state.pendingTokens = 3

\* ------------------------------------------------------------------ C14
\* observeNow got past its guards in this step
ObserverRunStarted == Did("observeNow.enter") /\ ~Did("observeNow.refused")

\* C14: a turn_end step starts an observer run exactly when the threshold is
\* positive, the pending tokens (its own segment included) reach it and no
\* observer run is in flight; a threshold of 0 never starts one.
C14_AutoObserve ==
    [][Did("turn_end")' =>
         (ObserverRunStarted' <=>
            /\ omConfig.autoObservePendingTokenThreshold > 0
            /\ state'.pendingTokens >= omConfig.autoObservePendingTokenThreshold
            /\ ~\E t \in Tasks : InObserverRun(t))]_vars

\* ------------------------------------------------------------------ C15
\* reflectNow was requested with this reason in this step
ReflectRequested(reason) ==
    \E i \in 1..Len(lastStep) :
        lastStep[i].op = "reflectNow.enter" /\ lastStep[i].text = reason

\* C15: when an observer run commits, a periodic reflector run is requested
\* exactly when the run was started by turn_end or /om-observe, reflection is
\* enabled and the run count is divisible by reflectEveryNObservations or the
\* observation tokens reach reflectWhenObservationTokensOver; runs started by
\* session_before_compact or /om-reflect never request one.
C15_PeriodicReflection ==
    [][\A t \in Tasks :
         (Acting(t) /\ Did("observer.commit")') =>
            (ReflectRequested("auto-periodic")' <=>
               /\ tasks[t].kind \in {"turn_end", "om-observe"}
               /\ omConfig.enableReflection
               /\ \/ state'.observationRuns % omConfig.reflectEveryNObservations = 0
                  \/ state'.observationTokens >= omConfig.reflectWhenObservationTokensOver)]_vars

\* a run whose count is not divisible by the interval requested the reflector
\* because of the size of the document
C15_Witness ==
    /\ Did("observer.commit")
    /\ ReflectRequested("auto-periodic")
    /\ state.observationRuns % omConfig.reflectEveryNObservations # 0
    /\ state.observationTokens >= omConfig.reflectWhenObservationTokensOver

\* ------------------------------------------------------------------ C16
\* in this step observeNow returned before the reflector's call was started
ObserveEndsBeforeReflectorCall ==
    \E i, j \in 1..Len(lastStep) :
        /\ i < j
        /\ lastStep[i].op \in {"observeNow.true", "observeNow.false", "observeNow.refused"}
        /\ lastStep[j].op \in {"reflector.cli", "reflector.api"}

\* C16: /om-reflect issued while segments are pending attempts an observer run
\* over all of them, the run has returned before the reflector's call starts,
\* and after a successful observe the reflector's input is the merged document.
C16_ObserveBeforeReflect ==
    [][/\ (Did("om-reflect")' /\ state.pendingSegments # <<>>) =>
            /\ Did("observeNow.enter")'
            /\ (Did("reflector.cli") \/ Did("reflector.api"))' => ObserveEndsBeforeReflectorCall'
            /\ \A t \in Tasks :
                  (Acting(t) /\ ObserverInFlight(t)') =>
                     tasks'[t].transcript = buildTranscriptFromSegments(state.pendingSegments)
       /\ \A t \in Tasks :
            (Acting(t) /\ tasks[t].kind = "om-reflect" /\ ObserverInFlight(t)
               /\ ReflectorInFlight(t)') =>
               /\ ObserveEndsBeforeReflectorCall'
               /\ Did("observer.commit")' =>
                     /\ tasks'[t].beforeObservations = state'.observations
                     /\ state'.observations =
                           TailOf(state.observations
                                    \o TrimmedNonEmptyLines(CommitText("observer.commit")'.observations),
                                  omConfig.maxObservationItems)]_vars

\* ------------------------------------------------------------------ C17
\* a handler invocation returned in this step without throwing: one that was
\* suspended, or one that started and ran to its end
HandlerReturned ==
    /\ ~Did("handler.throw")'
    /\ \/ \E t \in Tasks : Acting(t) /\ tasks'[t].pc = "idle"
       \/ /\ tasks' = tasks
          /\ (Did("turn_end") \/ Did("session_before_compact") \/ Did("om-observe")
                \/ Did("om-reflect") \/ Did("om-clear"))'
\* the record is the document, the run flags aside
SameDocument(record, st) ==
    /\ record.observations = st.observations
    /\ record.observationTokens = st.observationTokens
    /\ record.currentTask = st.currentTask
    /\ record.suggestedResponse = st.suggestedResponse
    /\ record.observationRuns = st.observationRuns
    /\ record.reflectionRuns = st.reflectionRuns
    /\ record.reflections = st.reflections
    /\ record.pendingSegments = st.pendingSegments
    /\ record.pendingTokens = st.pendingTokens

\* C17: when a handler returns from a stretch in which it changed the
\* document or the pending buffer, the latest persisted record of the session
\* equals the in-memory document; also for a session_before_compact whose
\* observer run fails after its segment was appended.
C17_PersistedOnReturn ==
    [][(HandlerReturned /\ (~DocumentKept \/ state'.pendingSegments # state.pendingSegments))
         => /\ sessionLog'[hostSession'] # NoEntry
            /\ SameDocument(sessionLog'[hostSession'][1], state')]_vars

\* ------------------------------------------------------------------ C18
\* C18: a session load that finds a persisted record D restores the
\* observations, currentTask, suggestedResponse, the two run counts, the
\* reflection history and the pending segments of D, recomputes pendingTokens
\* from the segments and sets both run flags to false whatever D holds.
C18_LoadRestores ==
    [][(Did("loadState")' /\ sessionLog[hostSession'] # NoEntry) =>
         LET D == sessionLog[hostSession'][1]
         IN /\ state'.observations = D.observations
            /\ state'.currentTask = D.currentTask
            /\ state'.suggestedResponse = D.suggestedResponse
            /\ state'.observationRuns = D.observationRuns
            /\ state'.reflectionRuns = D.reflectionRuns
            /\ state'.reflections = D.reflections
            /\ state'.pendingSegments = D.pendingSegments
            /\ state'.pendingTokens =
                  SumSeq([i \in 1..Len(D.pendingSegments) |-> D.pendingSegments[i].tokens])
            /\ ~state'.isBufferingObservation
            /\ ~state'.isBufferingReflection]_vars

\* a load of a record that was persisted with the observer's flag set and
\* two segments pending
C18_Witness ==
    /\ Did("loadState")
    /\ sessionLog[hostSession] # NoEntry
    /\ sessionLog[hostSession][1].isBufferingObservation
    /\ Len(sessionLog[hostSession][1].pendingSegments) = 2
    /\ Len(state.pendingSegments) = 2
    /\ ~state.isBufferingObservation

\* ------------------------------------------------------------------ C19
ContextInput == CommitText("context").input
ContextOutput == CommitText("context").output
IsMemoryContext(m) == m.role = "custom" /\ m.customType = OM_CONTEXT_CUSTOM_TYPE
IsContinuation(m) == m.role = "custom" /\ m.customType = OM_CONTINUATION_CUSTOM_TYPE
CountMemoryContext(list) == Cardinality({i \in 1..Len(list) : IsMemoryContext(list[i])})
CountContinuation(list) == Cardinality({i \in 1..Len(list) : IsContinuation(list[i])})

\* C19: whatever the input list holds, memory-context and continuation
\* messages of earlier calls included, the list the context handler returns
\* has at most one memory-context message and at most one continuation
\* message, and none of either when observations is empty.
C19_AtMostOneInjected ==
    Did("context") =>
        /\ CountMemoryContext(ContextOutput) <= 1
        /\ CountContinuation(ContextOutput) <= 1
        /\ state.observations = <<>> =>
              /\ CountMemoryContext(ContextOutput) = 0
              /\ CountContinuation(ContextOutput) = 0

\* an input that carried both injected messages of an earlier call came back
\* with exactly one of each
C19_Witness ==
    /\ Did("context")
    /\ CountMemoryContext(ContextInput) >= 1
    /\ CountContinuation(ContextInput) >= 1
    /\ CountMemoryContext(ContextOutput) = 1
    /\ CountContinuation(ContextOutput) = 1

\* ------------------------------------------------------------------ C20
\* C20: the continuation message is in the returned list exactly when
\* observations is non-empty, the selected recent window is non-empty and its
\* first message does not have role user; it then stands right after the
\* memory-context message and right before the recent messages.
C20_ContinuationHint ==
    Did("context") =>
        LET recent == recentMessages(ContextInput)
            out == ContextOutput
            injected == CountContinuation(out) >= 1
        IN /\ injected <=> /\ state.observations # <<>>
                           /\ recent # <<>>
                           /\ recent[1].role # "user"
           /\ injected =>
                 \E i \in 1..(Len(out) - 1) :
                    /\ IsMemoryContext(out[i])
                    /\ IsContinuation(out[i + 1])
                    /\ SubSeq(out, i + 2, Len(out)) = recent
                    /\ \A k \in 1..(i - 1) : out[k].role = "system"

\* a window that the turn-boundary walk let begin with a user message where
\* the budget alone would have begun later: no continuation message
C20_Witness ==
    /\ Did("context")
    /\ state.observations # <<>>
    /\ omConfig.recentTurnBudgetTokens = 2
    /\ Len(recentMessages(ContextInput)) = 3
    /\ recentMessages(ContextInput)[1].role = "user"
    /\ CountContinuation(ContextOutput) = 0
    /\ CountMemoryContext(ContextOutput) = 1

\* ------------------------------------------------------------------ C21
RelevanceKeys == CommitText("relevance").keys
CoreLines == CommitText("relevance").parts.core
RelevantLines == CommitText("relevance").parts.relevant

\* C21: the core set and the relevant set that buildCoreAndRelevantObservations
\* returns have no line in common, also for a document with duplicate lines.
C21_CoreRelevantDisjoint ==
    Did("relevance") => Range(CoreLines) \cap Range(RelevantLines) = {}

\* a line with one copy in the core tail and an older copy outside it that
\* scores for the query, next to a non-empty relevant set
C21_Witness ==
    /\ Did("relevance")
    /\ \E i, j \in 1..Len(state.observations) :
          /\ i <= Len(state.observations) - Len(CoreLines)
          /\ j > Len(state.observations) - Len(CoreLines)
          /\ state.observations[i] = state.observations[j]
          /\ lineScore(state.observations[i], RelevanceKeys) > 0
    /\ RelevantLines # <<>>

\* ------------------------------------------------------------------ C22
LineTokenSum(lines) == SumSeq([i \in 1..Len(lines) |-> roughTextTokenizer(<<lines[i]>>)])

LastIndexOf(line) ==
    CHOOSE i \in 1..Len(state.observations) :
        /\ state.observations[i] = line
        /\ \A j \in (i + 1)..Len(state.observations) : state.observations[j] # line
KeywordHits(line) == Cardinality(RelevanceKeys \cap LineWords(line))

\* C23: the relevant list is a function of the query and the document; with
\* at least one keyword it holds only lines with score > 0, ordered by score
\* descending and, at equal scores, more recent line first; without a keyword
\* it is ordered more recent line first.
C23_RankedOrder ==
    Did("relevance") =>
        /\ RelevantLines = buildCoreAndRelevantObservations(state, RelevanceKeys).relevant
        /\ RelevanceKeys # {} =>
              \A i \in 1..Len(RelevantLines) : KeywordHits(RelevantLines[i]) > 0
        /\ \A i, j \in 1..Len(RelevantLines) :
              i < j =>
                LET a == RelevantLines[i]
                    b == RelevantLines[j]
                IN IF RelevanceKeys # {}
                   THEN \/ KeywordHits(a) > KeywordHits(b)
                        \/ /\ KeywordHits(a) = KeywordHits(b)
                           /\ LastIndexOf(a) > LastIndexOf(b)
                   ELSE LastIndexOf(a) > LastIndexOf(b)

\* two different lines with the same score, the more recent one first
C23_Witness ==
    /\ Did("relevance")
    /\ RelevanceKeys # {}
    /\ Len(RelevantLines) = 2
    /\ RelevantLines[1] # RelevantLines[2]
    /\ KeywordHits(RelevantLines[1]) = KeywordHits(RelevantLines[2])
    /\ LastIndexOf(RelevantLines[1]) > LastIndexOf(RelevantLines[2])

\* C24: the reflection history never holds more than 15 entries; a successful
\* reflector run puts exactly one new entry in front of it, the entries it
\* already held follow in their order, and when it held 15 the last of them,
\* the oldest, is the one that is dropped
C24_HistoryBounded ==
    /\ Len(state.reflections) <= 15
    /\ [][/\ Len(state'.reflections) <= 15
          /\ Did("reflector.commit")' =>
                /\ Len(state'.reflections) = Min(Len(state.reflections) + 1, 15)
                /\ \A i \in 2..Len(state'.reflections) :
                      state'.reflections[i] = state.reflections[i - 1]
                /\ state'.reflections[1].afterTokens = state'.observationTokens
          /\ ~Did("reflector.commit")' =>
                \/ state'.reflections = state.reflections
                \/ Did("loadState")']_vars

\* a reflector run succeeded on a full history
C24_Witness ==
    /\ Did("reflector.commit")
    /\ Len(state.reflections) = 15
    /\ state.reflectionRuns = 16
    /\ state.reflections[15] = PastReflections(15)[14]

\* the number of events of the step named op
CountDid(op) == Cardinality({i \in 1..Len(lastStep) : lastStep[i].op = op})

\* C25: in every step other than the reset command and a session load,
\* observationRuns grows by exactly 1 per successful observer run of the step
\* and reflectionRuns by exactly 1 per successful reflector run, and a step
\* without a successful run (a failed, refused or blocked one included) leaves
\* both as they were
C25_RunCounters ==
    [][(~Did("om-clear")' /\ ~Did("loadState")') =>
          /\ state'.observationRuns = state.observationRuns + CountDid("observer.commit")'
          /\ state'.reflectionRuns = state.reflectionRuns + CountDid("reflector.commit")'
          /\ CountDid("observer.commit")' + CountDid("reflector.commit")' <= 1]_vars

\* both counters have counted a run, and the step just taken was a run that
\* failed and left them alone
C25_Witness ==
    /\ state.observationRuns = 1
    /\ state.reflectionRuns = 1
    /\ Did("reflectNow.false")
    /\ ~Did("observer.commit")

\* C26: a step that turns a non-empty observations text into an empty one is
\* the reset command or a session load; no observer run, reflector run,
\* turn-completed or pre-compaction event does it
C26_NeverEmptied ==
    [][(state.observations # <<>> /\ state'.observations = <<>>)
          => (Did("om-clear")' \/ Did("loadState")')]_vars

\* a reflector's reply without observations came back to a non-empty document
C26_Witness ==
    /\ Did("reflectNow.false")
    /\ ~Did("reflectNow.enter")
    /\ ~Did("api.failed")
    /\ state.observations # <<>>

\* a value of key that is not usable: not a finite number, or a number below
\* what the key needs (positive; the threshold also takes 0)
InvalidFor(key, value) ==
    \/ ~NumberIsFinite(value)
    \/ value.n < MinOf(key)

\* C27: after the configuration file is read, every numeric key whose
\* supplied value is invalid (non-numeric, non-finite, zero or negative where
\* a positive value is required) holds its documented default
C27_InvalidGivesDefault ==
    (Did("reloadOmConfig") /\ configFile.valid) =>
       \A key \in NumericKeys :
          InvalidFor(key, configFile.raw[key]) => omConfig[key] = DEFAULT_OM_CONFIG[key]

\* the bucket of a phrase: its number and unit without the past/future
\* wording (yesterday and tomorrow are the two wordings of one bucket)
BucketOf(phrase) ==
    [n |-> phrase.n,
     unit |-> IF phrase.unit \in {"yesterday", "tomorrow"} THEN "1 day" ELSE phrase.unit]

\* C28: for every whole number of days d >= 0 the phrase for a date d days
\* after the current date has the bucket of the phrase for the date d days
\* before it (today; yesterday/tomorrow; N days; 1/N weeks; 1/N months;
\* N years) and differs from it only in the past/future wording
C28_SymmetricBuckets ==
    Did("formatRelativeTime") =>
       LET call == lastStep[1].text
           d == DiffDays(call.date, call.currentDate)
           mirrored == formatRelativeTime(call.currentDate + d * HoursPerDay,
                                          call.currentDate)
       IN (d >= 0 /\ call.currentDate - call.date = d * HoursPerDay) =>
             /\ BucketOf(mirrored) = BucketOf(call.result)
             /\ d < 7 => call.result.unit \in {"today", "yesterday", "days"}
             /\ (7 <= d /\ d < 30) => call.result.unit \in {"week", "weeks"}
             /\ (30 <= d /\ d < 365) => call.result.unit \in {"month", "months"}
             /\ d >= 365 => call.result.unit \in {"year", "years"}

\* the position of the header before position j of a rendered text, 0 if none
PrevHeaderIndex(out, j) ==
    LET before == {k \in 1..(j - 1) : out[k].kind = "header"}
    IN IF before = {} THEN 0 ELSE CHOOSE k \in before : \A m \in before : m <= k

\* the lines of a rendered text that came from the text rendered
IsFromText(r) == r.from.kind # "none"
SourceLines(out) ==
    LET kept == SelectSeq(out, IsFromText)
    IN [i \in 1..Len(kept) |-> kept[i].from]

RunInFlight(t) == ObserverInFlight(t) \/ ReflectorInFlight(t)

\* C30: a step in which an observer or reflector run resumes from its
\* external call while the active scope is not the one the run began in
\* leaves the active document's observations, run counters and pending
\* segments as they are
C30_ScopeIsolation ==
    [][\A t \in Tasks :
          (Acting(t) /\ RunInFlight(t) /\ tasks[t].scopeKey # activeScopeKey) =>
             /\ state'.observations = state.observations
             /\ state'.observationRuns = state.observationRuns
             /\ state'.reflectionRuns = state.reflectionRuns
             /\ state'.pendingSegments = state.pendingSegments]_vars

\* the ids of the segments of a buffer, in the buffer's order
SegmentIds(segments) == [i \in 1..Len(segments) |-> segments[i].id]

\* C31: an observer run that fails leaves every pending segment in place, and
\* the transcript of a run that starts its call holds every segment pending
\* at that moment, in the buffer's order: the segments that were pending
\* before the step first, the segment the step's own handler appended last
C31_PendingRetried ==
    [][/\ (Did("observeNow.false")' /\ ~Did("observer.commit")') => PendingKept
       /\ \A t \in Tasks :
             (~ObserverInFlight(t) /\ ObserverInFlight(t)') =>
                /\ tasks'[t].transcript = SegmentIds(state'.pendingSegments)
                /\ Len(state.pendingSegments) <= Len(tasks'[t].transcript)
                /\ SubSeq(tasks'[t].transcript, 1, Len(state.pendingSegments))
                      = SegmentIds(state.pendingSegments)]_vars

\* after a run that found no backend, the next run's call is in flight with
\* the segment that run left pending ahead of a later one
C31_Witness ==
    /\ warnedMissingModel
    /\ \E t \in Tasks :
          /\ ObserverInFlight(t)
          /\ Len(tasks[t].transcript) = 2
          /\ tasks[t].transcript = SegmentIds(state.pendingSegments)

\* C32: a step in which the hosted-API call of an observer or reflector run
\* fails with an error ends that run as a failed run that returns false,
\* leaves the document and the pending segments as they are, and lets no
\* exception out of the handler that requested the run
C32_ApiFailureContained ==
    [][Did("api.failed")' =>
          /\ Did("observeNow.false")' \/ Did("reflectNow.false")'
          /\ ~Did("observeNow.throw")' /\ ~Did("reflectNow.throw")'
          /\ ~Did("handler.throw")'
          /\ DocumentKept
          /\ PendingKept]_vars

\* the step ends, without a commit, the reflector run that t's successful
\* observer run started: refused at once, or failed after its call
NestedReflectFailed(t) ==
    /\ Acting(t)
    /\ ~Did("reflector.commit")'
    /\ \/ ReflectorInFlight(t) /\ tasks[t].nested
       \/ /\ ObserverInFlight(t)
          /\ Did("observer.commit")'
          /\ ReflectRequested("auto-periodic")'
          /\ ~ReflectorInFlight(t)'

\* C33: when the reflector run started from inside a successful observer run
\* fails (refused, no usable reply, or an error of its external call), the
\* observer run returns true, no error leaves it or the handler, and what the
\* observer run committed stays as it is
C33_NestedReflectFailureSwallowed ==
    [][\A t \in Tasks :
          NestedReflectFailed(t) =>
             /\ Did("observeNow.true")'
             /\ ~Did("observeNow.throw")'
             /\ ~Did("handler.throw")'
             /\ (ReflectorInFlight(t) => (DocumentKept /\ PendingKept))]_vars

\* the events that start a hosted-API call
ApiCallOps == {"observer.api", "reflector.api"}

\* the event after which a run may turn to the hosted API: the run has just
\* begun and the command-line tool is not installed, or the tool's call has
\* just failed, or it has just returned empty text
AllowsApiCall(ev, cliChecked) ==
    \/ ev.op \in {"observeNow.enter", "reflectNow.enter"} /\ cliChecked = "false"
    \/ ev.op = "cli.failed"
    \/ ev.op = "cli.returned" /\ IsEmptyText(ev.text)

\* C34: a hosted-API call starts only directly after its run found the
\* command-line tool unavailable, or the tool's call raised an error or
\* returned empty text; a run that finds the tool available calls it first,
\* and after non-empty text from it no hosted-API call follows in that run
C34_CliBeforeApi ==
    [][/\ \A i \in 1..Len(lastStep') :
             lastStep'[i].op \in ApiCallOps =>
                (i > 1 /\ AllowsApiCall(lastStep'[i - 1], geminiCliChecked'))
       /\ \A i \in 1..Len(lastStep') :
             (lastStep'[i].op = "cli.returned" /\ ~IsEmptyText(lastStep'[i].text)) =>
                \A j \in i..Len(lastStep') : lastStep'[j].op \notin ApiCallOps
       /\ \A t \in Tasks :
             (RunInFlight(t)' /\ ~RunInFlight(t) /\ geminiCliChecked' = "true") =>
                tasks'[t].pc \in {"obs_cli", "rfl_cli"}]_vars

\* the command-line tool returned empty text and the run called the API
C34_Witness ==
    /\ Len(lastStep) = 2
    /\ lastStep[1].op = "cli.returned"
    /\ IsEmptyText(lastStep[1].text)
    /\ lastStep[2].op \in ApiCallOps
    /\ geminiCliChecked = "true"

\* C35: when the signal of a pre-compaction event aborts while a call made
\* for that event is in flight, observer call or before-compaction reflector
\* call, that call is cancelled
C35_AbortCancelsCall ==
    [][Did("signal.abort")' => Did("call.cancelled")']_vars

\* C36: within one session the warning that no backend is available is given
\* at most once: the warning is given only while it is not marked as given
\* (warnedMissingModel, line 1233), and once it was given it stays marked,
\* whatever runs succeed or fail to parse afterwards
C36_WarnOnce ==
    [][/\ Did("warn.missing")' => (~warnedMissingModel /\ warnedMissingModel')
       /\ warnedMissingModel => warnedMissingModel']_vars

\* the value of an optional field after a commit of a reply: the reply's
\* value when the reply holds the field, the previous value when it does not
LastWrite(previous, written) == IF written # "" THEN written ELSE previous

\* the reply a commit of this step used
CommittedReply ==
    IF Did("observer.commit") THEN CommitText("observer.commit")
    ELSE CommitText("reflector.commit")

\* C37: a successful observer or reflector run sets currentTask and
\* suggestedResponse to the values in its reply where the reply holds them
\* and leaves them alone where it does not; every other step, failed runs
\* included, leaves both alone (the reset command and session loads apart)
C37_LastWriteWins ==
    [][IF Did("observer.commit")' \/ Did("reflector.commit")'
       THEN /\ state'.currentTask = LastWrite(state.currentTask, CommittedReply'.currentTask)
            /\ state'.suggestedResponse =
                  LastWrite(state.suggestedResponse, CommittedReply'.suggestedResponse)
       ELSE (~Did("om-clear")' /\ ~Did("loadState")') =>
               /\ state'.currentTask = state.currentTask
               /\ state'.suggestedResponse = state.suggestedResponse]_vars

\* a reply without the two fields was committed over values an earlier reply
\* had written
C37_Witness ==
    /\ Did("reflector.commit")
    /\ CommitText("reflector.commit").currentTask = ""
    /\ CommitText("reflector.commit").suggestedResponse = ""
    /\ state.currentTask = "taskB"
    /\ state.suggestedResponse = "respA"

\* the pre-compaction handler of t took the mark when it started: in this
\* step, or in an earlier one (the handler was suspended since)
TookMark(t) ==
    IF Did("session_before_compact")' /\ tasks[t].pc = "idle"
    THEN forceCompactionFromObserve
    ELSE tasks[t].kind = "session_before_compact" /\ tasks[t].shouldOverwriteAll

\* C38: every pre-compaction event clears the mark when it starts; an event
\* reports the latest branch entry only if the mark was set when it started
\* and reports the host's firstKeptEntryId otherwise; the mark is set only by
\* /om-observe after a successful observe without --no-compact, when it
\* calls ctx.compact, and the compaction's error callback clears it
C38_MarkConsumedOnce ==
    [][/\ Did("session_before_compact")' => ~forceCompactionFromObserve'
       /\ \A t \in Tasks :
             Acting(t) =>
                /\ Did("compact.latest")' => TookMark(t)
                /\ Did("compact.host")' => ~TookMark(t)
       /\ (forceCompactionFromObserve' /\ ~forceCompactionFromObserve) =>
             /\ Did("ctx.compact")'
             /\ \E t \in Tasks :
                   /\ tasks[t].kind = "om-observe"
                   /\ tasks[t].pc = "wait_idle"
                   /\ ~tasks[t].skipCompact
                   /\ Acting(t)
       /\ Did("compact.onError")' => ~forceCompactionFromObserve']_vars

\* the event forced by /om-observe took the mark and reported the latest
\* branch entry; the mark is clear again
C38_Witness ==
    /\ Did("compact.latest")
    /\ ~forceCompactionFromObserve
    /\ state.observationRuns >= 1

\* the segments of the buffer that are in the transcript of t's observer run
TranscriptSegments(t) ==
    SelectSeq(state.pendingSegments,
              LAMBDA seg : \E i \in 1..Len(tasks[t].transcript) : tasks[t].transcript[i] = seg.id)

\* the whole text of the segment with this id is in the prompt of t's run
WhollySent(t, id) ==
    LET segments == TranscriptSegments(t)
        prompt == buildObserverPrompt(segments, omConfig.maxObserverTranscriptChars)
    IN \E i \in 1..Len(segments) :
          /\ prompt[i].id = id
          /\ prompt[i].sent = segments[i].chars

\* C39: a successful observer run removes a segment from the buffer only if
\* the whole text of the segment was in the prompt it sent; a segment cut
\* by maxObserverTranscriptChars stays pending
C39_CutSegmentsKept ==
    [][\A t \in Tasks :
          (Acting(t) /\ Did("observer.commit")') =>
             \A i \in 1..Len(state.pendingSegments) :
                (\A j \in 1..Len(state.pendingSegments') :
                    state.pendingSegments'[j].id # state.pendingSegments[i].id) =>
                   WhollySent(t, state.pendingSegments[i].id)]_vars

\* C40: the document as /om-clear left it (empty, counters 0, no run in
\* progress) is not written by a returning observer or reflector call: a
\* call that was in flight at the reset commits nothing into it
C40_ResetStaysEmpty ==
    [][\A t \in Tasks :
          (Acting(t) /\ state = createInitialState) =>
             /\ ~Did("observer.commit")'
             /\ ~Did("reflector.commit")'
             /\ state'.observations = <<>>
             /\ state'.observationRuns = 0
             /\ state'.reflectionRuns = 0]_vars

====
